---- MODULE Spec2Model ----
(***************************************************************************)
(* Model of the XP dashboard (src/app.py, src/utils.py): the leveling      *)
(* engine (xp_needed_for_level, add_xp, remove_xp), the task store of the  *)
(* viewed day, the tasks file, and the soft-delete / undo machinery with   *)
(* its Tk timers, the daily XP goal, the task reminders, the XP categories *)
(* with the task dialog that reads them, and the sort of the task list.    *)
(*                                                                         *)
(* Every handler runs as one step.  The handlers are written as functions  *)
(* over an application-state record (App) that is threaded through the     *)
(* helper calls in the order of the source and committed at the end.       *)
(***************************************************************************)
EXTENDS Integers, Sequences, FiniteSets, Bags, TLC

VARIABLES
    current_date,            \* self.current_date
    tasks,                   \* self.tasks: id -> task record of the viewed day
    tasks_file,              \* content of DATA_FILE written by DataManager
    level,                   \* self.level
    total_xp,                \* self.total_xp
    recently_deleted_tasks,  \* self.recently_deleted_tasks: id -> task_data
    undo_notification_id,    \* self.undo_notification_id is not None
    timers,                  \* armed root.after(5000, ...) callbacks, oldest first
    next_id,                 \* number of ids handed out by generate_unique_id
    recurring_tasks,         \* self.recurring_tasks, as saved in RECURRING_TASKS_FILE
    shown,                   \* dialogs and notifications issued by the last handler
    call,                    \* the last handler or function that ran, with its input
    daily_xp_today,          \* self.daily_xp_today
    xp_goals,                \* self.xp_goals: daily_goal, last_daily_reset
    goals_file,              \* content of GOALS_FILE, if it exists
    goal_met_shown_for_today,\* self._goal_met_shown_for_today
    now,                     \* datetime.datetime.now(), in minutes of the day
    reminders,               \* armed root.after(time_diff, _trigger_task_notification) callbacks
    scheduled_notifications, \* self.scheduled_notifications: id -> handle of a reminder
    xp_categories,           \* self.xp_categories: category -> default XP or None
    categories_file,         \* content of CATEGORIES_FILE, if it exists
    sort_var,                \* self.sort_var
    tasks_list,              \* the list populate_tasks hands to sort_tasks and displays
    dialog,                  \* the modal dialog a handler is waiting in (wait_window)
    disk                     \* DataManager's four files and their .bak copies

vars == <<current_date, tasks, tasks_file, level, total_xp,
          recently_deleted_tasks, undo_notification_id, timers, next_id,
          recurring_tasks, shown, call, daily_xp_today, xp_goals, goals_file,
          goal_met_shown_for_today, now, reminders, scheduled_notifications,
          xp_categories, categories_file, sort_var, tasks_list, dialog,
          disk>>

----------------------------------------------------------------------------
(* Bounds of the model *)

MaxLevel == 2        \* handlers add no XP beyond this level
LvlMaxLevel == 5     \* same cap for the leveling engine run on its own
MaxIds == 2          \* ids generate_unique_id can hand out
MaxTimers == 4       \* armed 5-second timers at any moment
NumDates == 2        \* calendar dates the user can view

Dates == 1..NumDates
TaskIds == 1..MaxIds
Descriptions == {"a"}
DueTimes == {"None"}       \* due_time: None or an HH:MM string
TaskXps == {0, 120}              \* XP values the task dialog returns
Amounts == {0, 5, 10, 100, 250, 500, 1000}
InitXps == {0, 10, 90, 150}
LevelArgs == (0 - 2)..(LvlMaxLevel + 3)

----------------------------------------------------------------------------
(* Leveling engine: src/utils.py and XPDashboardApp.add_xp / remove_xp *)

(* xp_needed_for_level without the guard for levels <= 0 *)
xp_needed_for_level_unguarded(lvl) == lvl * 100

xp_needed_for_level(lvl) == IF lvl <= 0 THEN 0 ELSE lvl * 100

LevelUpInfo(lvl) == <<"info", "Level Up!", lvl>>
LevelUpNotification(lvl) == <<"notify", "Level Up!", lvl>>

(* add_xp subtracting the threshold of the level reached, not of the level left *)
RECURSIVE add_xp_loop_next_threshold(_, _, _)
add_xp_loop_next_threshold(lvl, xp, out) ==
    IF xp >= xp_needed_for_level(lvl)
    THEN add_xp_loop_next_threshold(
             lvl + 1, xp - xp_needed_for_level(lvl + 1),
             out \o <<LevelUpInfo(lvl + 1), LevelUpNotification(lvl + 1)>>)
    ELSE [level |-> lvl, total_xp |-> xp, shown |-> out]

(* add_xp reporting one aggregate level-up, for the level finally reached *)
RECURSIVE add_xp_loop_aggregate(_, _, _)
add_xp_loop_aggregate(lvl, xp, out) ==
    IF xp >= xp_needed_for_level(lvl)
    THEN add_xp_loop_aggregate(
             lvl + 1, xp - xp_needed_for_level(lvl),
             <<LevelUpInfo(lvl + 1), LevelUpNotification(lvl + 1)>>)
    ELSE [level |-> lvl, total_xp |-> xp, shown |-> out]

RECURSIVE add_xp_loop(_, _, _)
add_xp_loop(lvl, xp, out) ==
    IF xp >= xp_needed_for_level(lvl)
    THEN add_xp_loop(lvl + 1, xp - xp_needed_for_level(lvl),
                     out \o <<LevelUpInfo(lvl + 1), LevelUpNotification(lvl + 1)>>)
    ELSE [level |-> lvl, total_xp |-> xp, shown |-> out]

add_xp_result(lvl, xp, amount) == add_xp_loop(lvl, xp + amount, <<>>)

(* remove_xp adding back the threshold of the level left, not of the lower one *)
RECURSIVE remove_xp_loop_old_threshold(_, _)
remove_xp_loop_old_threshold(lvl, xp) ==
    IF xp < 0 /\ lvl > 1
    THEN remove_xp_loop_old_threshold(lvl - 1, xp + xp_needed_for_level(lvl))
    ELSE [level |-> lvl, total_xp |-> IF xp < 0 THEN 0 ELSE xp]

(* remove_xp without the clamp at level 1 *)
RECURSIVE remove_xp_loop_unclamped(_, _)
remove_xp_loop_unclamped(lvl, xp) ==
    IF xp < 0 /\ lvl > 1
    THEN remove_xp_loop_unclamped(lvl - 1, xp + xp_needed_for_level(lvl - 1))
    ELSE [level |-> lvl, total_xp |-> xp]

(* remove_xp lowering the level one step too far *)
RECURSIVE remove_xp_loop_extra_step(_, _)
remove_xp_loop_extra_step(lvl, xp) ==
    IF xp <= 0 /\ lvl > 1
    THEN remove_xp_loop_extra_step(lvl - 1, xp + xp_needed_for_level(lvl - 1))
    ELSE [level |-> lvl, total_xp |-> IF xp < 0 THEN 0 ELSE xp]

RECURSIVE remove_xp_loop(_, _)
remove_xp_loop(lvl, xp) ==
    IF xp < 0 /\ lvl > 1
    THEN remove_xp_loop(lvl - 1, xp + xp_needed_for_level(lvl - 1))
    ELSE [level |-> lvl, total_xp |-> IF xp < 0 THEN 0 ELSE xp]

(* remove_xp entering the level-down loop also when the XP reaches exactly 0 *)
remove_xp_result_at_zero(lvl, xp, amount) ==
    IF xp - amount <= 0
    THEN remove_xp_loop_extra_step(lvl, xp - amount)
    ELSE [level |-> lvl, total_xp |-> xp - amount]

remove_xp_result(lvl, xp, amount) ==
    IF xp - amount < 0
    THEN remove_xp_loop(lvl, xp - amount)
    ELSE [level |-> lvl, total_xp |-> xp - amount]

----------------------------------------------------------------------------
(* Dictionaries *)

EmptyDict == [k \in {} |-> 0]
Put(d, k, v) == [x \in (DOMAIN d) \cup {k} |-> IF x = k THEN v ELSE d[x]]
Del(d, k) == [x \in (DOMAIN d) \ {k} |-> d[x]]
FirstKey(d) == CHOOSE k \in DOMAIN d : \A j \in DOMAIN d : k <= j

----------------------------------------------------------------------------
(* Timers.  Every timer of the undo machinery is armed with the same delay *)
(* of 5000 ms, so they expire in the order they were armed.  A handle kept *)
(* by the program (the after_id of a slot entry, undo_notification_id)     *)
(* always names the timer of its kind that was armed last.                 *)

UndoTimer(id) == [kind |-> "undo", id |-> id]
HideTimer == [kind |-> "hide", id |-> 0]

RECURSIVE LastIndex(_, _, _)
LastIndex(q, t, i) == IF i = 0 THEN 0 ELSE IF q[i] = t THEN i ELSE LastIndex(q, t, i - 1)

RemoveAt(q, i) == [j \in 1..(Len(q) - 1) |-> IF j < i THEN q[j] ELSE q[j + 1]]

after_cancel(q, t) ==
    LET i == LastIndex(q, t, Len(q)) IN IF i = 0 THEN q ELSE RemoveAt(q, i)

----------------------------------------------------------------------------
(* Application state threaded through a handler *)

App == [current_date |-> current_date, tasks |-> tasks, tasks_file |-> tasks_file,
        level |-> level, total_xp |-> total_xp,
        recently_deleted_tasks |-> recently_deleted_tasks,
        undo_notification_id |-> undo_notification_id, timers |-> timers,
        next_id |-> next_id, recurring_tasks |-> recurring_tasks, shown |-> <<>>,
        daily_xp_today |-> daily_xp_today, xp_goals |-> xp_goals,
        goals_file |-> goals_file,
        goal_met_shown_for_today |-> goal_met_shown_for_today,
        now |-> now, reminders |-> reminders,
        scheduled_notifications |-> scheduled_notifications,
        xp_categories |-> xp_categories, categories_file |-> categories_file,
        sort_var |-> sort_var, tasks_list |-> tasks_list, dialog |-> dialog,
        disk |-> disk]

(* call: the leveling function applied last when the engine is run on its  *)
(* own (SpecLvl), with its argument, the state it started from and, when   *)
(* it directly follows an add_xp of the same amount that crossed no level  *)
(* (chained), the state that add_xp started from.                          *)
(* disk: what DataManager finds under each of its four paths and under    *)
(* the path with ".bak" appended: the version of the data written there,   *)
(* or Missing.  It is followed when DataManager is run on its own; the     *)
(* content the program reads back is in tasks_file, goals_file,            *)
(* categories_file and recurring_tasks.                                    *)
Paths == {"data_file", "categories_file", "goals_file", "recurring_tasks_file"}
Missing == [exists |-> FALSE, data |-> 0]
NoFiles == [p \in Paths |-> [file |-> Missing, bak |-> Missing]]

(* dialog: no dialog is open; otherwise the handler that opened it, the id *)
(* of the task it works on and, for a level-up message, the level reached  *)
NoDialog == [op |-> "none", id |-> 0, level |-> 0, then |-> "none"]

NoCall == [fn |-> "none", arg |-> 0, level0 |-> 0, xp0 |-> 0, ret |-> 0,
           chained |-> FALSE, prev_level0 |-> 0, prev_xp0 |-> 0]

CommitState(s) ==
    /\ current_date' = s.current_date
    /\ tasks' = s.tasks
    /\ tasks_file' = s.tasks_file
    /\ level' = s.level
    /\ total_xp' = s.total_xp
    /\ recently_deleted_tasks' = s.recently_deleted_tasks
    /\ undo_notification_id' = s.undo_notification_id
    /\ timers' = s.timers
    /\ next_id' = s.next_id
    /\ recurring_tasks' = s.recurring_tasks
    /\ shown' = s.shown
    /\ daily_xp_today' = s.daily_xp_today
    /\ xp_goals' = s.xp_goals
    /\ goals_file' = s.goals_file
    /\ goal_met_shown_for_today' = s.goal_met_shown_for_today
    /\ now' = s.now
    /\ reminders' = s.reminders
    /\ scheduled_notifications' = s.scheduled_notifications
    /\ xp_categories' = s.xp_categories
    /\ categories_file' = s.categories_file
    /\ sort_var' = s.sort_var
    /\ tasks_list' = s.tasks_list
    /\ dialog' = s.dialog
    /\ disk' = s.disk

Commit(s) == CommitState(s) /\ call' = NoCall

Show(s, d) == [s EXCEPT !.shown = Append(@, d)]

(* save_tasks: tasks_data[current_date] = tasks; dump tasks_data *)
save_tasks(s) ==
    [s EXCEPT !.tasks_file.days[s.current_date] = s.tasks]

(* save_goals *)
save_goals(s) ==
    [s EXCEPT !.goals_file = [exists |-> TRUE, daily_goal |-> s.xp_goals.daily_goal,
                              last_daily_reset |-> s.xp_goals.last_daily_reset]]

(* save_categories *)
save_categories(s) ==
    [s EXCEPT !.categories_file = [exists |-> TRUE, data |-> s.xp_categories]]

(* _save_app_state: as save_tasks, and the _level / _total_xp keys; then   *)
(* the categories, the goals and the recurring definitions                 *)
save_app_state(s) ==
    save_goals(save_categories(
        [s EXCEPT !.tasks_file = [days |-> [@.days EXCEPT ![s.current_date] = s.tasks],
                                  level |-> s.level, total_xp |-> s.total_xp]]))

add_xp(s, amount) ==
    LET r == add_xp_result(s.level, s.total_xp, amount) IN
    save_app_state([s EXCEPT !.level = r.level, !.total_xp = r.total_xp,
                             !.shown = @ \o r.shown])

remove_xp(s, amount) ==
    LET r == remove_xp_result(s.level, s.total_xp, amount) IN
    save_app_state([s EXCEPT !.level = r.level, !.total_xp = r.total_xp])

(* _hide_undo_notification: clears the slot; the handle is dropped, not cancelled *)
hide_undo_notification(s) ==
    [s EXCEPT !.recently_deleted_tasks = EmptyDict, !.undo_notification_id = FALSE]

(* _show_undo_notification: cancel the hide timer whose handle is held, arm a new one *)
show_undo_notification(s) ==
    LET q == IF s.undo_notification_id THEN after_cancel(s.timers, HideTimer)
             ELSE s.timers IN
    [s EXCEPT !.timers = Append(q, HideTimer), !.undo_notification_id = TRUE]

(* _permanently_delete_task *)
permanently_delete_task(s, id, save_state) ==
    LET s1 == IF id \in DOMAIN s.recently_deleted_tasks
              THEN LET p == [s EXCEPT !.recently_deleted_tasks = Del(@, id),
                                      !.timers = after_cancel(@, UndoTimer(id))]
                   IN IF save_state THEN save_tasks(p) ELSE p
              ELSE s
    IN hide_undo_notification(s1)

(* None where the program holds a date: the calendar dialog was cancelled, *)
(* a definition has no last_generated_date yet                             *)
NoDate == 0

(* strftime("%a") of a date; date 1 is a Monday *)
Weekdays == <<"Mon", "Tue", "Wed", "Thu", "Fri", "Sat", "Sun">>
Weekday(d) == Weekdays[((d - 1) % 7) + 1]

(* the daily instance of a recurring definition; the dialog that builds a  *)
(* definition sets no due_time, so r_task.get("due_time") is None          *)
RecurringInstance(id, r) ==
    [id |-> id, task |-> r.task, done |-> FALSE, xp |-> r.xp,
     is_recurring_instance |-> TRUE, due_time |-> "None"]

tasks_added_today_names(s) == {s.tasks[id].task : id \in DOMAIN s.tasks}

(* should_generate treating a weekly definition as a daily one *)
should_generate_ignores_days(r, today) ==
    r.last_generated_date = NoDate \/ r.last_generated_date < today

(* should_generate also on the date of the last generation *)
should_generate_same_day(r, today) ==
    /\ r.last_generated_date = NoDate \/ r.last_generated_date <= today
    /\ \/ r.recurrence_type = "daily"
       \/ r.recurrence_type = "weekly" /\ Weekday(today) \in r.recurrence_value

should_generate(r, today) ==
    /\ r.last_generated_date = NoDate \/ r.last_generated_date < today
    /\ \/ r.recurrence_type = "daily"
       \/ r.recurrence_type = "weekly" /\ Weekday(today) \in r.recurrence_value

(* the loop body leaving last_generated_date as it was *)
generate_for_keeps_date(s, i) ==
    LET r == s.recurring_tasks[i]
        id == s.next_id + 1
    IN IF should_generate(r, s.current_date) /\ r.task \notin tasks_added_today_names(s)
       THEN [s EXCEPT !.next_id = id, !.tasks = Put(@, id, RecurringInstance(id, r))]
       ELSE s

(* _generate_daily_tasks_from_recurring: the body of the loop for r_task i *)
generate_for(s, i) ==
    LET r == s.recurring_tasks[i]
        id == s.next_id + 1
    IN IF should_generate(r, s.current_date)
       THEN LET s1 == IF r.task \notin tasks_added_today_names(s)
                      THEN [s EXCEPT !.next_id = id,
                                     !.tasks = Put(@, id, RecurringInstance(id, r))]
                      ELSE s
            IN [s1 EXCEPT !.recurring_tasks[i].last_generated_date = s.current_date]
       ELSE s

RECURSIVE generate_loop(_, _)
generate_loop(s, i) ==
    IF i > Len(s.recurring_tasks) THEN s ELSE generate_loop(generate_for(s, i), i + 1)

(* _generate_daily_tasks_from_recurring; it ends by saving the definitions *)
generate_daily_tasks_from_recurring(s) == generate_loop(s, 1)

----------------------------------------------------------------------------
(* Reminders.  The clock counts the minutes of the day; a reminder is a Tk *)
(* timer armed for the task's due time, and scheduled_notifications keeps  *)
(* the handle of the reminder armed last for a task id.                    *)

StartMinute == 9 * 60 - 1     \* the clock when the program starts
EndMinute == 9 * 60           \* the clock does not run beyond this minute

(* hour, minute = map(int, due_time_str.split(':')) *)
hour_minute(due_time_str) == IF due_time_str = "09:00" THEN <<9, 0>> ELSE <<0, 0>>

(* now.replace(hour=hour, minute=minute, second=0, microsecond=0) *)
target_time(due_time_str) ==
    hour_minute(due_time_str)[1] * 60 + hour_minute(due_time_str)[2]

ReminderTimer(id, at) == [kind |-> "reminder", id |-> id, at |-> at]

(* _cancel_notification_for_task *)
cancel_notification_for_task(s, id) ==
    IF id \in DOMAIN s.scheduled_notifications
    THEN [s EXCEPT !.reminders = @ (-) SetToBag({s.scheduled_notifications[id]}),
                   !.scheduled_notifications = Del(@, id)]
    ELSE s

(* _schedule_notifications_for_task arming a reminder for a done task too *)
schedule_notifications_for_task_done_too(s, task) ==
    LET s1 == cancel_notification_for_task(s, task.id) IN
    IF task.due_time # "None" /\ target_time(task.due_time) > s1.now
    THEN LET t == ReminderTimer(task.id, target_time(task.due_time))
         IN [s1 EXCEPT !.reminders = @ (+) SetToBag({t}),
                       !.scheduled_notifications = Put(@, task.id, t)]
    ELSE s1

(* _schedule_notifications_for_task *)
schedule_notifications_for_task(s, task) ==
    LET s1 == cancel_notification_for_task(s, task.id) IN
    IF ~task.done /\ task.due_time # "None" /\ target_time(task.due_time) > s1.now
    THEN LET t == ReminderTimer(task.id, target_time(task.due_time))
         IN [s1 EXCEPT !.reminders = @ (+) SetToBag({t}),
                       !.scheduled_notifications = Put(@, task.id, t)]
    ELSE s1

RECURSIVE cancel_all_notifications(_)
cancel_all_notifications(s) ==
    IF DOMAIN s.scheduled_notifications = {} THEN s
    ELSE cancel_all_notifications(
             cancel_notification_for_task(s, FirstKey(s.scheduled_notifications)))

RECURSIVE schedule_tasks(_, _)
schedule_tasks(s, ids) ==
    IF ids = {} THEN s
    ELSE LET id == CHOOSE k \in ids : \A j \in ids : k <= j
         IN schedule_tasks(schedule_notifications_for_task(s, s.tasks[id]), ids \ {id})

(* _schedule_all_current_tasks_notifications *)
schedule_all_current_tasks_notifications(s) ==
    schedule_tasks(cancel_all_notifications(s), DOMAIN s.tasks)

TaskReminder(task) == <<"notify", "Task Reminder!", task.task>>

(* _trigger_task_notification signaling without looking at the task *)
trigger_task_notification_unchecked(s, t) ==
    LET s1 == [s EXCEPT !.reminders = @ (-) SetToBag({t})]
        s2 == IF t.id \in DOMAIN s1.tasks
              THEN Show(s1, TaskReminder(s1.tasks[t.id]))
              ELSE Show(s1, <<"notify", "Task Reminder!", "">>)
    IN [s2 EXCEPT !.scheduled_notifications = Del(@, t.id)]

(* _trigger_task_notification: the callback of the reminder t that expired *)
trigger_task_notification(s, t) ==
    LET s1 == [s EXCEPT !.reminders = @ (-) SetToBag({t})]
        s2 == IF t.id \in DOMAIN s1.tasks /\ ~s1.tasks[t.id].done
              THEN Show(s1, TaskReminder(s1.tasks[t.id]))
              ELSE s1
    IN [s2 EXCEPT !.scheduled_notifications = Del(@, t.id)]

----------------------------------------------------------------------------
(* Daily goal *)

(* sum(t['xp'] for t in self.tasks.values() if t['done']) *)
RECURSIVE sum_done_xp(_)
sum_done_xp(store) ==
    IF DOMAIN store = {} THEN 0
    ELSE LET id == FirstKey(store)
         IN (IF store[id].done THEN store[id].xp ELSE 0) + sum_done_xp(Del(store, id))

GoalMetPopup == <<"popup", "goal_met">>
GoalMetNotification(daily_goal) == <<"notify", "Daily Goal Achieved!", daily_goal>>

(* the new-day reset of _load_app_state and update_daily_goal_display *)
reset_daily_xp(s) ==
    [save_goals([s EXCEPT !.daily_xp_today = 0,
                          !.xp_goals.last_daily_reset = s.current_date])
        EXCEPT !.goal_met_shown_for_today = FALSE]

(* update_daily_goal_display *)
update_daily_goal_display(s) ==
    LET daily_goal == s.xp_goals.daily_goal
        s1 == [s EXCEPT !.daily_xp_today = sum_done_xp(s.tasks)]
        s2 == IF s1.xp_goals.last_daily_reset # s1.current_date
              THEN reset_daily_xp(s1) ELSE s1
    IN IF s2.daily_xp_today >= daily_goal /\ daily_goal > 0
       THEN IF ~s2.goal_met_shown_for_today
            THEN [Show(Show(s2, GoalMetPopup), GoalMetNotification(daily_goal))
                     EXCEPT !.goal_met_shown_for_today = TRUE]
            ELSE s2
       ELSE [s2 EXCEPT !.goal_met_shown_for_today = FALSE]

(* DataManager.load_goals_data *)
load_goals_data(s) ==
    IF s.goals_file.exists
    THEN [daily_goal |-> s.goals_file.daily_goal,
          last_daily_reset |-> s.goals_file.last_daily_reset]
    ELSE [daily_goal |-> 0, last_daily_reset |-> s.current_date]

----------------------------------------------------------------------------
(* XP categories: the default XP of a category is <<xp>>, or <<>> for None *)

None == <<>>
DefaultCategories ==
    ("Easy" :> <<5>>) @@ ("Medium" :> <<10>>) @@ ("Hard" :> <<15>>)
        @@ ("Miscellaneous" :> None)

(* DataManager.load_categories_data *)
load_categories_data(s) ==
    IF s.categories_file.exists THEN s.categories_file.data ELSE DefaultCategories

----------------------------------------------------------------------------
(* Loading a day *)

(* _load_app_state: the tasks of the viewed date, the categories, the      *)
(* goals, the global level / XP, the daily XP with its new-day reset, the  *)
(* instances of the recurring definitions that are due, and the reminders  *)
(* of the loaded tasks                                                     *)
load_app_state(s) ==
    LET s1 == [s EXCEPT !.tasks = s.tasks_file.days[s.current_date],
                        !.xp_categories = load_categories_data(s),
                        !.xp_goals = load_goals_data(s),
                        !.level = s.tasks_file.level,
                        !.total_xp = s.tasks_file.total_xp]
        s2 == [s1 EXCEPT !.daily_xp_today = sum_done_xp(s1.tasks)]
        s3 == IF s2.xp_goals.last_daily_reset # s2.current_date
              THEN reset_daily_xp(s2)
              ELSE [s2 EXCEPT !.goal_met_shown_for_today =
                        s2.xp_goals.daily_goal > 0
                            /\ s2.daily_xp_today >= s2.xp_goals.daily_goal]
    IN schedule_all_current_tasks_notifications(
           generate_daily_tasks_from_recurring(s3))

----------------------------------------------------------------------------
(* Initial state: first start, no data files *)

NoGoalsFile == [exists |-> FALSE, daily_goal |-> 0, last_daily_reset |-> NoDate]
NoCategoriesFile == [exists |-> FALSE, data |-> DefaultCategories]

Init ==
    /\ current_date = 1
    /\ tasks = EmptyDict
    /\ tasks_file = [days |-> [d \in Dates |-> EmptyDict], level |-> 1, total_xp |-> 0]
    /\ level = 1
    /\ total_xp = 0
    /\ recently_deleted_tasks = EmptyDict
    /\ undo_notification_id = FALSE
    /\ timers = <<>>
    /\ next_id = 0
    /\ recurring_tasks = <<>>
    /\ shown = <<>>
    /\ call = NoCall
    /\ daily_xp_today = 0
    /\ xp_goals = [daily_goal |-> 0, last_daily_reset |-> 1]
    /\ goals_file = NoGoalsFile
    /\ goal_met_shown_for_today = FALSE
    /\ now = StartMinute
    /\ reminders = EmptyBag
    /\ scheduled_notifications = EmptyDict
    /\ xp_categories = DefaultCategories
    /\ categories_file = NoCategoriesFile
    /\ sort_var = "Default"
    /\ tasks_list = <<>>
    /\ dialog = NoDialog
    /\ disk = NoFiles

----------------------------------------------------------------------------
(* Handlers *)

XP_CONFIRMATION_THRESHOLD == 10

Task(id, desc, xp, due) ==
    [id |-> id, task |-> desc, done |-> FALSE, xp |-> xp, due_time |-> due]

DialogData == [task : Descriptions, xp : TaskXps, due_time : DueTimes]
Cancelled == [task |-> "", xp |-> 0, due_time |-> "None"]   \* dialog.show() returned None

(* The text of the entry field, as a sequence of characters *)
Entries == {<<>>, <<" ">>, <<" ", "a", " ">>}

(* str.strip() *)
RECURSIVE lstrip(_)
lstrip(e) == IF e # <<>> /\ Head(e) = " " THEN lstrip(Tail(e)) ELSE e

RECURSIVE rstrip(_)
rstrip(e) == IF e # <<>> /\ e[Len(e)] = " " THEN rstrip(SubSeq(e, 1, Len(e) - 1)) ELSE e

strip(e) == rstrip(lstrip(e))

(* The entry texts that hold a description; the user also leaves the entry *)
(* empty or blank in SpecGoal and SpecCat                                  *)
FilledEntries == {e \in Entries : strip(e) # <<>>}

(* str.isdigit() and int() on the text of an entry *)
DigitValue ==
    ("0" :> 0) @@ ("1" :> 1) @@ ("2" :> 2) @@ ("3" :> 3) @@ ("4" :> 4)
        @@ ("5" :> 5) @@ ("6" :> 6) @@ ("7" :> 7) @@ ("8" :> 8) @@ ("9" :> 9)

isdigit(e) == e # <<>> /\ \A i \in 1..Len(e) : e[i] \in DOMAIN DigitValue

RECURSIVE digits_value(_)
digits_value(e) ==
    IF e = <<>> THEN 0
    ELSE digits_value(SubSeq(e, 1, Len(e) - 1)) * 10 + DigitValue[e[Len(e)]]

(* int(e) does not raise ValueError *)
is_int(e) ==
    \/ isdigit(e)
    \/ e # <<>> /\ Head(e) \in {"-", "+"} /\ isdigit(Tail(e))

int_value(e) ==
    IF Head(e) = "-" THEN 0 - digits_value(Tail(e))
    ELSE IF Head(e) = "+" THEN digits_value(Tail(e))
    ELSE digits_value(e)

(* add_task_from_entry testing the entry text as typed *)
add_task_from_entry_unstripped(s, entry, data) ==
    IF entry = <<>>
    THEN Show(s, <<"warning", "Task description cannot be empty.">>)
    ELSE IF data = Cancelled
    THEN s
    ELSE LET id == s.next_id + 1
             s1 == [s EXCEPT !.next_id = id,
                             !.tasks = Put(@, id, Task(id, data.task, data.xp, data.due_time))]
         IN schedule_notifications_for_task(save_tasks(s1), s1.tasks[id])

(* add_task_from_entry; data is what the task dialog returned *)
add_task_from_entry(s, entry, data) ==
    IF strip(entry) = <<>>
    THEN Show(s, <<"warning", "Task description cannot be empty.">>)
    ELSE IF data = Cancelled
    THEN s
    ELSE LET id == s.next_id + 1
             s1 == [s EXCEPT !.next_id = id,
                             !.tasks = Put(@, id, Task(id, data.task, data.xp, data.due_time))]
         IN schedule_notifications_for_task(save_tasks(s1), s1.tasks[id])

AddTask(entry, data) ==
    /\ (strip(entry) # <<>> /\ data # Cancelled) => next_id < MaxIds
    /\ Commit(add_task_from_entry(App, entry, data))

(* toggle_task adding the XP in both directions *)
toggle_task_always_adds(s, id, confirm) ==
    IF id \notin DOMAIN s.tasks
    THEN Show(s, <<"error", "Could not find the task to toggle.">>)
    ELSE LET t == s.tasks[id]
             s1 == save_tasks([s EXCEPT !.tasks[id].done = ~t.done])
         IN IF t.xp >= XP_CONFIRMATION_THRESHOLD /\ ~confirm
            THEN s
            ELSE update_daily_goal_display(
                     IF ~t.done
                     THEN cancel_notification_for_task(
                              Show(add_xp(s1, t.xp), <<"popup", "add", t.xp>>), id)
                     ELSE schedule_notifications_for_task(
                              Show(add_xp(s1, t.xp), <<"popup", "add", t.xp>>),
                              s1.tasks[id]))

(* toggle_task saving the store before it looks the task up *)
toggle_task_saves_first(s, id, confirm) ==
    IF id \notin DOMAIN s.tasks
    THEN Show(save_tasks(s), <<"error", "Could not find the task to toggle.">>)
    ELSE LET t == s.tasks[id]
             s1 == save_tasks([s EXCEPT !.tasks[id].done = ~t.done])
         IN IF t.xp >= XP_CONFIRMATION_THRESHOLD /\ ~confirm
            THEN s
            ELSE update_daily_goal_display(
                     IF ~t.done
                     THEN cancel_notification_for_task(
                              Show(add_xp(s1, t.xp), <<"popup", "add", t.xp>>), id)
                     ELSE schedule_notifications_for_task(
                              Show(remove_xp(s1, t.xp), <<"popup", "remove", t.xp>>),
                              s1.tasks[id]))

(* toggle_task *)
toggle_task(s, id, confirm) ==
    IF id \notin DOMAIN s.tasks
    THEN Show(s, <<"error", "Could not find the task to toggle.">>)
    ELSE LET t == s.tasks[id]
             previous_done == t.done
             needs_confirmation == t.xp >= XP_CONFIRMATION_THRESHOLD
         IN IF needs_confirmation /\ ~confirm
            THEN s
            ELSE LET s1 == save_tasks([s EXCEPT !.tasks[id].done = ~previous_done])
                 IN update_daily_goal_display(
                        IF ~previous_done
                        THEN cancel_notification_for_task(
                                 Show(add_xp(s1, t.xp), <<"popup", "add", t.xp>>), id)
                        ELSE schedule_notifications_for_task(
                                 Show(remove_xp(s1, t.xp), <<"popup", "remove", t.xp>>),
                                 s1.tasks[id]))

ToggleTask(id, confirm) ==
    LET r == toggle_task(App, id, confirm) IN
    /\ r.level <= MaxLevel
    /\ Commit(r)

(* edit_task *)
edit_task(s, id, data) ==
    IF id \notin DOMAIN s.tasks
    THEN Show(s, <<"error", "Could not find the task to edit.">>)
    ELSE IF data = Cancelled
    THEN s
    ELSE LET original_xp == s.tasks[id].xp
             s1 == [s EXCEPT !.tasks[id].task = data.task,
                             !.tasks[id].xp = data.xp,
                             !.tasks[id].due_time = data.due_time]
             s2 == IF s1.tasks[id].done
                   THEN add_xp(remove_xp(s1, original_xp), data.xp)
                   ELSE s1
             s3 == schedule_notifications_for_task(
                       cancel_notification_for_task(s2, id), s2.tasks[id])
         IN update_daily_goal_display(save_tasks(s3))

(* The edit dialog is confirmed with the XP value it was opened with; the  *)
(* other XP values it can return are covered per state by the formulas    *)
(* that quantify over DialogData.                                         *)
EditChoices(id) ==
    {d \in DialogData : id \in DOMAIN tasks => d.xp = tasks[id].xp} \cup {Cancelled}

EditTask(id, data) ==
    LET r == edit_task(App, id, data) IN
    /\ data \in EditChoices(id)
    /\ r.level <= MaxLevel
    /\ Commit(r)

(* delete_task leaving the entry of the previous deletion in the undo slot *)
delete_task_keeps_previous(s, id, confirm) ==
    IF id \notin DOMAIN s.tasks
    THEN Show(s, <<"error", "Could not find the task to delete.">>)
    ELSE LET task_found == s.tasks[id]
         IN IF ~confirm
            THEN s
            ELSE LET s2 == IF task_found.done THEN remove_xp(s, task_found.xp) ELSE s
                     s3 == [cancel_notification_for_task(
                                [s2 EXCEPT !.tasks = Del(@, id)], id)
                               EXCEPT !.timers = Append(@, UndoTimer(id)),
                                      !.recently_deleted_tasks = Put(@, id, task_found)]
                 IN show_undo_notification(update_daily_goal_display(s3))

(* delete_task leaving the XP of a done task in place until the deadline *)
delete_task_xp_at_deadline(s, id, confirm) ==
    IF id \notin DOMAIN s.tasks
    THEN Show(s, <<"error", "Could not find the task to delete.">>)
    ELSE LET task_found == s.tasks[id]
         IN IF ~confirm
            THEN s
            ELSE LET s1 == IF DOMAIN s.recently_deleted_tasks # {}
                           THEN permanently_delete_task(
                                    s, FirstKey(s.recently_deleted_tasks), TRUE)
                           ELSE s
                     s3 == [cancel_notification_for_task(
                                [s1 EXCEPT !.tasks = Del(@, id)], id)
                               EXCEPT !.timers = Append(@, UndoTimer(id)),
                                      !.recently_deleted_tasks = Put(@, id, task_found)]
                 IN show_undo_notification(update_daily_goal_display(s3))

(* delete_task going ahead without the confirmation *)
delete_task_unconfirmed(s, id, confirm) ==
    IF id \notin DOMAIN s.tasks
    THEN Show(s, <<"error", "Could not find the task to delete.">>)
    ELSE LET task_found == s.tasks[id]
             s1 == IF DOMAIN s.recently_deleted_tasks # {}
                   THEN permanently_delete_task(
                            s, FirstKey(s.recently_deleted_tasks), TRUE)
                   ELSE s
             s2 == IF task_found.done THEN remove_xp(s1, task_found.xp) ELSE s1
             s3 == [cancel_notification_for_task([s2 EXCEPT !.tasks = Del(@, id)], id)
                       EXCEPT !.timers = Append(@, UndoTimer(id)),
                              !.recently_deleted_tasks = Put(@, id, task_found)]
         IN show_undo_notification(update_daily_goal_display(s3))

(* delete_task *)
delete_task(s, id, confirm) ==
    IF id \notin DOMAIN s.tasks
    THEN Show(s, <<"error", "Could not find the task to delete.">>)
    ELSE LET task_found == s.tasks[id]
         IN IF ~confirm
            THEN s
            ELSE LET s1 == IF DOMAIN s.recently_deleted_tasks # {}
                           THEN permanently_delete_task(
                                    s, FirstKey(s.recently_deleted_tasks), TRUE)
                           ELSE s
                     s2 == IF task_found.done THEN remove_xp(s1, task_found.xp) ELSE s1
                     s3 == [cancel_notification_for_task(
                                [s2 EXCEPT !.tasks = Del(@, id)], id)
                               EXCEPT !.timers = Append(@, UndoTimer(id)),
                                      !.recently_deleted_tasks = Put(@, id, task_found)]
                 IN show_undo_notification(update_daily_goal_display(s3))

DeleteTask(id, confirm) ==
    LET r == delete_task(App, id, confirm) IN
    /\ Len(r.timers) <= MaxTimers
    /\ Commit(r)

(* undo_delete_task restoring the task but keeping its entry in the slot *)
undo_delete_task_keeps_entry(s) ==
    IF DOMAIN s.recently_deleted_tasks = {}
    THEN Show(s, <<"info", "No Undo Available">>)
    ELSE LET id == FirstKey(s.recently_deleted_tasks)
             task_data == s.recently_deleted_tasks[id]
             s2 == save_tasks([s EXCEPT !.tasks = Put(@, id, task_data)])
             s3 == IF task_data.done
                   THEN Show(add_xp(s2, task_data.xp), <<"popup", "add", task_data.xp>>)
                   ELSE s2
             s4 == update_daily_goal_display(
                       schedule_notifications_for_task(s3, task_data))
         IN Show(s4, <<"info", "Task Restored">>)

(* undo_delete_task saving the store before it looks at the slot *)
undo_delete_task_saves_when_empty(s) ==
    IF DOMAIN s.recently_deleted_tasks = {}
    THEN Show(save_tasks(s), <<"info", "No Undo Available">>)
    ELSE LET id == FirstKey(s.recently_deleted_tasks)
             task_data == s.recently_deleted_tasks[id]
             s1 == [s EXCEPT !.recently_deleted_tasks = Del(@, id),
                             !.timers = after_cancel(@, UndoTimer(id))]
             s2 == save_tasks([s1 EXCEPT !.tasks = Put(@, id, task_data)])
             s3 == IF task_data.done
                   THEN Show(add_xp(s2, task_data.xp), <<"popup", "add", task_data.xp>>)
                   ELSE s2
             s4 == update_daily_goal_display(
                       schedule_notifications_for_task(s3, task_data))
         IN Show(hide_undo_notification(s4), <<"info", "Task Restored">>)

(* undo_delete_task *)
undo_delete_task(s) ==
    IF DOMAIN s.recently_deleted_tasks = {}
    THEN Show(s, <<"info", "No Undo Available">>)
    ELSE LET id == FirstKey(s.recently_deleted_tasks)
             task_data == s.recently_deleted_tasks[id]
             s1 == [s EXCEPT !.recently_deleted_tasks = Del(@, id),
                             !.timers = after_cancel(@, UndoTimer(id))]
             s2 == save_tasks([s1 EXCEPT !.tasks = Put(@, id, task_data)])
             s3 == IF task_data.done
                   THEN Show(add_xp(s2, task_data.xp), <<"popup", "add", task_data.xp>>)
                   ELSE s2
             s4 == update_daily_goal_display(
                       schedule_notifications_for_task(s3, task_data))
         IN Show(hide_undo_notification(s4), <<"info", "Task Restored">>)

UndoDeleteTask ==
    LET r == undo_delete_task(App) IN
    /\ r.level <= MaxLevel
    /\ Commit(r)

(* the 5-second timers: the callback of the timer that expires next *)
fire_timer(s) ==
    LET t == Head(s.timers)
        s1 == [s EXCEPT !.timers = Tail(@)]
    IN IF t.kind = "undo"
       THEN permanently_delete_task(s1, t.id, TRUE)
       ELSE hide_undo_notification(s1)

RECURSIVE fire_timers(_, _)
fire_timers(s, k) == IF k = 0 THEN s ELSE fire_timers(fire_timer(s), k - 1)

UndoTimeout ==
    /\ timers # <<>>
    /\ Head(timers).kind = "undo"
    /\ Commit(fire_timer(App))

HideTimeout ==
    /\ timers # <<>>
    /\ Head(timers).kind = "hide"
    /\ Commit(fire_timer(App))

(* select_date *)
select_date(s, selected) ==
    IF selected = NoDate
    THEN s
    ELSE update_daily_goal_display(load_app_state([s EXCEPT !.current_date = selected]))

SelectDate(selected) ==
    Commit(select_date(App, selected))

Next ==
    \/ \E entry \in FilledEntries, data \in DialogData \cup {Cancelled} :
           AddTask(entry, data)
    \/ \E id \in TaskIds, confirm \in BOOLEAN : ToggleTask(id, confirm)
    \/ \E id \in TaskIds, data \in DialogData \cup {Cancelled} : EditTask(id, data)
    \/ \E id \in TaskIds, confirm \in BOOLEAN : DeleteTask(id, confirm)
    \/ UndoDeleteTask
    \/ UndoTimeout
    \/ HideTimeout
    \/ \E selected \in Dates \cup {NoDate} : SelectDate(selected)

Spec == Init /\ [][Next]_vars

----------------------------------------------------------------------------
(* The leveling engine on its own: xp_needed_for_level, add_xp and         *)
(* remove_xp applied to every valid progression state of the first levels  *)

InitLevels == 1..3

LvlInit ==
    /\ level \in InitLevels
    /\ total_xp \in {x \in InitXps : x < xp_needed_for_level(level)}
    /\ current_date = 1
    /\ tasks = EmptyDict
    /\ tasks_file = [days |-> [d \in Dates |-> EmptyDict],
                     level |-> level, total_xp |-> total_xp]
    /\ recently_deleted_tasks = EmptyDict
    /\ undo_notification_id = FALSE
    /\ timers = <<>>
    /\ next_id = 0
    /\ recurring_tasks = <<>>
    /\ shown = <<>>
    /\ call = NoCall
    /\ daily_xp_today = 0
    /\ xp_goals = [daily_goal |-> 0, last_daily_reset |-> 1]
    /\ goals_file = NoGoalsFile
    /\ goal_met_shown_for_today = FALSE
    /\ now = StartMinute
    /\ reminders = EmptyBag
    /\ scheduled_notifications = EmptyDict
    /\ xp_categories = DefaultCategories
    /\ categories_file = NoCategoriesFile
    /\ sort_var = "Default"
    /\ tasks_list = <<>>
    /\ dialog = NoDialog
    /\ disk = NoFiles

LvlCall(fn, arg, ret, chained) ==
    [fn |-> fn, arg |-> arg, level0 |-> level, xp0 |-> total_xp, ret |-> ret,
     chained |-> chained,
     prev_level0 |-> IF chained THEN call.level0 ELSE 0,
     prev_xp0 |-> IF chained THEN call.xp0 ELSE 0]

LvlXpNeeded(lvl) ==
    /\ CommitState(App)
    /\ call' = LvlCall("xp_needed_for_level", lvl, xp_needed_for_level(lvl), FALSE)

LvlAddXp(amount) ==
    LET r == add_xp(App, amount) IN
    /\ r.level <= LvlMaxLevel
    /\ CommitState(r)
    /\ call' = LvlCall("add_xp", amount, 0, FALSE)

LvlRemoveXp(amount) ==
    /\ CommitState(remove_xp(App, amount))
    /\ call' = LvlCall("remove_xp", amount, 0,
                       /\ call.fn = "add_xp"
                       /\ call.arg = amount
                       /\ amount < xp_needed_for_level(call.level0) - call.xp0)

LvlNext ==
    \/ \E lvl \in LevelArgs : LvlXpNeeded(lvl)
    \/ \E amount \in Amounts : LvlAddXp(amount)
    \/ \E amount \in Amounts : LvlRemoveXp(amount)

SpecLvl == LvlInit /\ [][LvlNext]_vars

----------------------------------------------------------------------------
(* The application with recurring definitions: definitions are added       *)
(* through the recurring-task dialog, every day-load runs the generator,   *)
(* and the generated instances are toggled, deleted and restored like any  *)
(* other task.                                                             *)

RecMaxIds == 3       \* ids handed out while recurring definitions exist
MaxRecurring == 2    \* recurring definitions the user adds
RecMaxTimers == 2    \* one deletion pending at a time

RecTaskIds == 1..RecMaxIds

(* what AddRecurringTaskDialog returns: last_generated_date is None *)
RecurringDialogData ==
    { [task |-> "r", xp |-> 5, recurrence_type |-> "daily",
       recurrence_value |-> {}, last_generated_date |-> NoDate],
      [task |-> "w", xp |-> 5, recurrence_type |-> "weekly",
       recurrence_value |-> {"Mon", "Wed"}, last_generated_date |-> NoDate] }

RecDialogData == [task : {"r"}, xp : {5}, due_time : DueTimes]

(* add_recurring_task *)
add_recurring_task(s, data) ==
    Show([s EXCEPT !.recurring_tasks = Append(@, data)],
         <<"info", "Recurring Task Added">>)

AddRecurringTask(data) ==
    /\ Len(recurring_tasks) < MaxRecurring
    /\ Commit(add_recurring_task(App, data))

RecAddTask(data) ==
    /\ next_id < RecMaxIds
    /\ Commit(add_task_from_entry(App, <<data.task>>, data))

RecSelectDate(selected) ==
    LET r == select_date(App, selected) IN
    /\ r.next_id <= RecMaxIds
    /\ Commit(r)

RecDeleteTask(id) ==
    LET r == delete_task(App, id, TRUE) IN
    /\ Len(r.timers) <= RecMaxTimers
    /\ Commit(r)

(* _perform_auto_save *)
PerformAutoSave ==
    Commit(save_app_state(App))

RecNext ==
    \/ \E data \in RecurringDialogData : AddRecurringTask(data)
    \/ \E data \in RecDialogData : RecAddTask(data)
    \/ \E selected \in Dates : RecSelectDate(selected)
    \/ \E id \in RecTaskIds : RecDeleteTask(id)
    \/ UndoDeleteTask
    \/ UndoTimeout
    \/ HideTimeout
    \/ PerformAutoSave

SpecRec == Init /\ [][RecNext]_vars

----------------------------------------------------------------------------
(* The application with a daily goal and the history window: the goal is   *)
(* set through its dialog, and the history window's edit and delete        *)
(* buttons switch the main window to the day of the task before they call  *)
(* edit_task / delete_task.                                                *)

GoalMaxTimers == 2   \* one deletion pending at a time

GoalDialogData == [task : {"a"}, xp : {120}, due_time : DueTimes]

(* what the user leaves in the entry of the goal dialog *)
GoalTexts == {<<" ", "1", "2", "0">>, <<"-", "5">>, <<"x">>}

(* set_daily_goal; result is the button the dialog was closed with *)
set_daily_goal(s, result, text) ==
    IF result # "set"
    THEN s
    ELSE LET goal_value_str == strip(text) IN
         IF isdigit(goal_value_str) /\ int_value(goal_value_str) >= 0
         THEN LET s1 == [s EXCEPT !.xp_goals.daily_goal = int_value(goal_value_str),
                                  !.xp_goals.last_daily_reset = s.current_date,
                                  !.daily_xp_today = sum_done_xp(s.tasks)]
              IN Show(update_daily_goal_display(save_goals(s1)), <<"info", "Goal Set!">>)
         ELSE Show(s, <<"error", "Please enter a valid positive number for the goal.">>)

SetDailyGoal(result, text) ==
    Commit(set_daily_goal(App, result, text))

(* XPHistoryWindow._edit_task_from_history *)
edit_task_from_history(s, date_str, id, data) ==
    edit_task(load_app_state([s EXCEPT !.current_date = date_str]), id, data)

(* XPHistoryWindow._delete_task_from_history *)
delete_task_from_history(s, date_str, id, confirm) ==
    delete_task(load_app_state([s EXCEPT !.current_date = date_str]), id, confirm)

EditTaskFromHistory(date_str, id, data) ==
    Commit(edit_task_from_history(App, date_str, id, data))

DeleteTaskFromHistory(date_str, id, confirm) ==
    LET r == delete_task_from_history(App, date_str, id, confirm) IN
    /\ Len(r.timers) <= GoalMaxTimers
    /\ Commit(r)

GoalAddTask(entry, data) ==
    /\ strip(entry) # <<>> => next_id < MaxIds
    /\ Commit(add_task_from_entry(App, entry, data))

GoalDeleteTask(id, confirm) ==
    LET r == delete_task(App, id, confirm) IN
    /\ Len(r.timers) <= GoalMaxTimers
    /\ Commit(r)

GoalNext ==
    \/ \E entry \in Entries, data \in GoalDialogData : GoalAddTask(entry, data)
    \/ \E id \in TaskIds, confirm \in BOOLEAN : ToggleTask(id, confirm)
    \/ \E id \in TaskIds, data \in GoalDialogData \cup {Cancelled} : EditTask(id, data)
    \/ \E id \in TaskIds, confirm \in BOOLEAN : GoalDeleteTask(id, confirm)
    \/ UndoDeleteTask
    \/ UndoTimeout
    \/ HideTimeout
    \/ \E selected \in Dates \cup {NoDate} : SelectDate(selected)
    \/ \E result \in {"set", "cancel"}, text \in GoalTexts : SetDailyGoal(result, text)
    \/ \E date_str \in Dates, id \in TaskIds, data \in GoalDialogData \cup {Cancelled} :
           EditTaskFromHistory(date_str, id, data)
    \/ \E date_str \in Dates, id \in TaskIds, confirm \in BOOLEAN :
           DeleteTaskFromHistory(date_str, id, confirm)

SpecGoal == Init /\ [][GoalNext]_vars

----------------------------------------------------------------------------
(* The application with due times: tasks get a due time in the task        *)
(* dialog, the clock advances, and the Tk timers of the reminders fire     *)
(* once their due time is reached.                                         *)

RemMaxTimers == 2    \* one deletion pending at a time

RemDueTimes == {"None", "09:00"}
RemDialogData == [task : {"a"}, xp : {0}, due_time : RemDueTimes]

RemAddTask(data) ==
    /\ next_id < MaxIds
    /\ Commit(add_task_from_entry(App, <<data.task>>, data))

RemEditTask(id, data) ==
    Commit(edit_task(App, id, data))

RemDeleteTask(id, confirm) ==
    LET r == delete_task(App, id, confirm) IN
    /\ Len(r.timers) <= RemMaxTimers
    /\ Commit(r)

(* a minute passes *)
Tick ==
    /\ now < EndMinute
    /\ Commit([App EXCEPT !.now = @ + 1])

(* the Tk timer t of a reminder has expired and its callback runs *)
TriggerTaskNotification(t) ==
    /\ BagIn(t, reminders)
    /\ t.at <= now
    /\ Commit(trigger_task_notification(App, t))

RemNext ==
    \/ \E data \in RemDialogData : RemAddTask(data)
    \/ \E id \in TaskIds, confirm \in BOOLEAN : ToggleTask(id, confirm)
    \/ \E id \in TaskIds, data \in RemDialogData \cup {Cancelled} : RemEditTask(id, data)
    \/ \E id \in TaskIds, confirm \in BOOLEAN : RemDeleteTask(id, confirm)
    \/ UndoDeleteTask
    \/ UndoTimeout
    \/ HideTimeout
    \/ \E selected \in Dates \cup {NoDate} : SelectDate(selected)
    \/ Tick
    \/ \E t \in BagToSet(reminders) : TriggerTaskNotification(t)

SpecRem == Init /\ [][RemNext]_vars

----------------------------------------------------------------------------
(* The application with its XP categories: the category window saves the   *)
(* default XP of each category, and the task dialog takes the XP of a task *)
(* from the selected category or, for "Miscellaneous", from the manual     *)
(* entry.                                                                  *)

(* str(xp) of an integer *)
RECURSIVE str_digits(_)
str_digits(n) ==
    LET d == CHOOSE c \in DOMAIN DigitValue : DigitValue[c] = n % 10
    IN IF n < 10 THEN <<d>> ELSE Append(str_digits(n \div 10), d)

str_value(n) == IF n < 0 THEN <<"-">> \o str_digits(0 - n) ELSE str_digits(n)

(* "".join of the characters of a text *)
RECURSIVE join(_)
join(e) == IF e = <<>> THEN "" ELSE Head(e) \o join(Tail(e))

(* what the user leaves in the entry of a category *)
CategoryTexts == {<<"5">>, <<" ", "-", "5">>, <<"x">>, <<>>}

(* the entries of the category window when it is saved: the one of "Easy"  *)
(* was edited, the others show the values they were filled with            *)
cat_vars(s, text) ==
    [cat \in DOMAIN s.xp_categories |->
        IF cat = "Easy" THEN text
        ELSE IF s.xp_categories[cat] = None THEN <<>>
        ELSE str_value(s.xp_categories[cat][1])]

(* save_and_close_categories *)
save_and_close_categories(s, vars_) ==
    IF \E cat \in DOMAIN vars_ : strip(vars_[cat]) # <<>> /\ ~is_int(strip(vars_[cat]))
    THEN Show(s, <<"error", "XP must be a number or empty.">>)
    ELSE save_categories(
             [s EXCEPT !.xp_categories =
                 [cat \in DOMAIN vars_ |->
                     IF strip(vars_[cat]) = <<>> THEN None
                     ELSE <<int_value(strip(vars_[cat]))>>]])

SaveAndCloseCategories(text) ==
    Commit(save_and_close_categories(App, cat_vars(App, text)))

(* the fields of the task dialog when a button is pressed; due_time is     *)
(* empty ("None") or a well-formed HH:MM                                   *)
TaskDialogFields ==
    [entry : {<<" ", "a">>, <<" ">>}, xp_category : {"Easy", "Miscellaneous"},
     manual_xp : {<<"5">>, <<"-", "5">>, <<"x">>}, due_time : DueTimes,
     command : {"add", "cancel"}]

(* TaskDetailsDialog.validate_input *)
validate_input(f) ==
    /\ strip(f.entry) # <<>>
    /\ f.xp_category = "Miscellaneous" =>
           is_int(f.manual_xp) /\ int_value(f.manual_xp) >= 0

(* TaskDetailsDialog._get_validated_data *)
get_validated_data(categories, f) ==
    [task |-> join(strip(f.entry)),
     xp |-> IF f.xp_category = "Miscellaneous" THEN int_value(f.manual_xp)
            ELSE IF f.xp_category \notin DOMAIN categories
                    \/ categories[f.xp_category] = None
                 THEN 0
                 ELSE categories[f.xp_category][1],
     due_time |-> f.due_time]

(* TaskDetailsDialog.show: the data of a submission that passes the        *)
(* validation; a submission that fails it leaves the dialog open, and the  *)
(* dialog then ends like a cancelled one                                   *)
task_details_dialog(categories, f) ==
    IF f.command = "add" /\ validate_input(f)
    THEN get_validated_data(categories, f)
    ELSE Cancelled

CatAddTask(entry, f) ==
    /\ (strip(entry) # <<>> /\ task_details_dialog(xp_categories, f) # Cancelled)
           => next_id < MaxIds
    /\ Commit(add_task_from_entry(App, entry, task_details_dialog(xp_categories, f)))

CatEditTask(id, f) ==
    Commit(edit_task(App, id, task_details_dialog(xp_categories, f)))

CatNext ==
    \/ \E text \in CategoryTexts : SaveAndCloseCategories(text)
    \/ \E entry \in Entries, f \in TaskDialogFields : CatAddTask(entry, f)
    \/ \E id \in TaskIds, f \in TaskDialogFields : CatEditTask(id, f)
    \/ \E selected \in Dates \cup {NoDate} : SelectDate(selected)

SpecCat == Init /\ [][CatNext]_vars

----------------------------------------------------------------------------
(* sort_tasks on its own, applied in every sort mode to every short list   *)
(* of tasks.  A description is a sequence of characters here, so that      *)
(* str.lower() and the order of strings can be computed.                   *)

MaxListLen == 3      \* tasks in the list handed to sort_tasks

sort_options ==
    {"Default", "XP (High to Low)", "XP (Low to High)", "Alphabetical",
     "Status (Done First)"}

SortDescriptions == {<<"a">>, <<"B">>, <<"b", "a">>}
SortTasks == [task : SortDescriptions, done : BOOLEAN, xp : {5, 10}]

(* ord() of the characters used *)
Ord == ("B" :> 66) @@ ("a" :> 97) @@ ("b" :> 98)

(* str.lower() *)
lower_char(c) == IF c = "B" THEN "b" ELSE c
lower(e) == [i \in 1..Len(e) |-> lower_char(e[i])]

codes(e) == [i \in 1..Len(e) |-> Ord[e[i]]]

(* the order of Python tuples and strings: lexicographic *)
RECURSIVE key_less(_, _)
key_less(x, y) ==
    IF y = <<>> THEN FALSE
    ELSE IF x = <<>> THEN TRUE
    ELSE IF Head(x) # Head(y) THEN Head(x) < Head(y)
    ELSE key_less(Tail(x), Tail(y))

(* the sort key comparing the descriptions as they are written *)
sort_key_case_sensitive(task, sort_mode) ==
    IF sort_mode = "XP (High to Low)" THEN <<0 - task.xp>>
    ELSE IF sort_mode = "XP (Low to High)" THEN <<task.xp>>
    ELSE IF sort_mode = "Alphabetical" THEN codes(task.task)
    ELSE <<IF ~task.done THEN 1 ELSE 0>> \o codes(task.task)

(* the key of each sort mode, as a sequence of numbers; reverse=True keeps *)
(* the order of equal elements, like a sort by the negated key             *)
sort_key(task, sort_mode) ==
    IF sort_mode = "XP (High to Low)" THEN <<0 - task.xp>>
    ELSE IF sort_mode = "XP (Low to High)" THEN <<task.xp>>
    ELSE IF sort_mode = "Alphabetical" THEN codes(lower(task.task))
    ELSE <<IF ~task.done THEN 1 ELSE 0>> \o codes(lower(task.task))

(* list.sort is stable: an element goes behind the elements that are not   *)
(* greater than it                                                         *)
RECURSIVE insert_sorted(_, _, _)
insert_sorted(sorted, task, sort_mode) ==
    IF sorted = <<>> THEN <<task>>
    ELSE IF key_less(sort_key(task, sort_mode), sort_key(Head(sorted), sort_mode))
    THEN <<task>> \o sorted
    ELSE <<Head(sorted)>> \o insert_sorted(Tail(sorted), task, sort_mode)

RECURSIVE list_sort(_, _, _)
list_sort(sorted, rest, sort_mode) ==
    IF rest = <<>> THEN sorted
    ELSE list_sort(insert_sorted(sorted, Head(rest), sort_mode), Tail(rest), sort_mode)

(* sort_tasks *)
sort_tasks(list, sort_mode) ==
    IF sort_mode = "Default" THEN list ELSE list_sort(<<>>, list, sort_mode)

RECURSIVE SeqsUpTo(_, _)
SeqsUpTo(S, n) ==
    IF n = 0 THEN {<<>>}
    ELSE LET shorter == SeqsUpTo(S, n - 1)
         IN shorter \cup {Append(q, x) : q \in shorter, x \in S}

SortInit ==
    /\ tasks_list \in SeqsUpTo(SortTasks, MaxListLen)
    /\ dialog = NoDialog
    /\ disk = NoFiles
    /\ sort_var = "Default"
    /\ current_date = 1
    /\ tasks = EmptyDict
    /\ tasks_file = [days |-> [d \in Dates |-> EmptyDict], level |-> 1, total_xp |-> 0]
    /\ level = 1
    /\ total_xp = 0
    /\ recently_deleted_tasks = EmptyDict
    /\ undo_notification_id = FALSE
    /\ timers = <<>>
    /\ next_id = 0
    /\ recurring_tasks = <<>>
    /\ shown = <<>>
    /\ call = NoCall
    /\ daily_xp_today = 0
    /\ xp_goals = [daily_goal |-> 0, last_daily_reset |-> 1]
    /\ goals_file = NoGoalsFile
    /\ goal_met_shown_for_today = FALSE
    /\ now = StartMinute
    /\ reminders = EmptyBag
    /\ scheduled_notifications = EmptyDict
    /\ xp_categories = DefaultCategories
    /\ categories_file = NoCategoriesFile

(* the user picks a sort mode; the list is sorted in place *)
SortTasksBy(sort_mode) ==
    Commit([App EXCEPT !.sort_var = sort_mode,
                       !.tasks_list = sort_tasks(tasks_list, sort_mode)])

SortNext ==
    \E sort_mode \in sort_options : SortTasksBy(sort_mode)

SpecSort == SortInit /\ [][SortNext]_vars

----------------------------------------------------------------------------
(* Pending deletions under the Tk event loop, which runs the callback of   *)
(* an armed timer once its 5 seconds have passed: a timer that stays armed *)
(* eventually expires.  Tasks are added, deleted, restored and reloaded;   *)
(* none is toggled, so their XP plays no part.                             *)

LiveDialogData == [task : {"a"}, xp : {0}, due_time : DueTimes]

LiveAddTask(data) ==
    /\ next_id < MaxIds
    /\ Commit(add_task_from_entry(App, <<data.task>>, data))

(* root.mainloop() dispatching the timer that is due first *)
TimerExpires == UndoTimeout \/ HideTimeout

LiveNext ==
    \/ \E data \in LiveDialogData : LiveAddTask(data)
    \/ \E id \in TaskIds, confirm \in BOOLEAN : DeleteTask(id, confirm)
    \/ UndoDeleteTask
    \/ TimerExpires
    \/ \E selected \in Dates \cup {NoDate} : SelectDate(selected)

SpecLive == Init /\ [][LiveNext]_vars /\ WF_vars(TimerExpires)

----------------------------------------------------------------------------
(* The handlers with their modal dialogs.  CustomDialog.show() ends in     *)
(* parent.wait_window(self), which runs the Tk event loop until the dialog *)
(* is closed: grab_set() keeps the user's clicks away from the main window *)
(* meanwhile, but the callbacks armed with root.after() are dispatched.    *)
(* Here a handler runs up to the dialog it opens, and goes on, in a later  *)
(* step, when the dialog is closed; toggle_task, delete_task and           *)
(* undo_delete_task are split at the confirmation dialogs and at the       *)
(* "Level Up!" message of add_xp.                                          *)

ModalMaxTimers == 2  \* one deletion pending at a time

ModalDialogData == [task : {"a"}, xp : {300}, due_time : DueTimes]

ConfirmToggle(id) == [op |-> "toggle_task", id |-> id, level |-> 0, then |-> "none"]
ConfirmDelete(id) == [op |-> "delete_task", id |-> id, level |-> 0, then |-> "none"]
LevelUpMessage(lvl, id, then) == [op |-> "add_xp", id |-> id, level |-> lvl, then |-> then]

(* the statements that follow the call of add_xp in toggle_task and in     *)
(* undo_delete_task                                                        *)
after_add_xp(s, id, then) ==
    LET task == s.tasks[id]
        s1 == Show(s, <<"popup", "add", task.xp>>)
    IN IF then = "toggle_task"
       THEN update_daily_goal_display(cancel_notification_for_task(s1, id))
       ELSE Show(hide_undo_notification(update_daily_goal_display(
                     schedule_notifications_for_task(s1, task))),
                 <<"info", "Task Restored">>)

(* add_xp from the test of its while loop on: a level-up opens the         *)
(* "Level Up!" message and waits in it; without one, add_xp saves and      *)
(* returns to its caller                                                   *)
add_xp_levels(s, id, then) ==
    IF s.total_xp >= xp_needed_for_level(s.level)
    THEN Show([s EXCEPT !.total_xp = @ - xp_needed_for_level(s.level),
                        !.level = @ + 1,
                        !.dialog = LevelUpMessage(s.level + 1, id, then)],
              LevelUpInfo(s.level + 1))
    ELSE after_add_xp(save_app_state([s EXCEPT !.dialog = NoDialog]), id, then)

(* add_xp called for task id by the handler then *)
add_xp_modal(s, amount, id, then) ==
    add_xp_levels([s EXCEPT !.total_xp = @ + amount], id, then)

(* the "Level Up!" message is closed: _send_notification, and the loop     *)
(* goes on                                                                 *)
level_up_closed(s) ==
    add_xp_levels(Show(s, LevelUpNotification(s.level)), s.dialog.id, s.dialog.then)

(* toggle_task after the confirmation *)
toggle_task_proceeds(s, id) ==
    LET t == s.tasks[id]
        previous_done == t.done
        s1 == save_tasks([s EXCEPT !.tasks[id].done = ~previous_done,
                                   !.dialog = NoDialog])
    IN IF ~previous_done
       THEN add_xp_modal(s1, t.xp, id, "toggle_task")
       ELSE update_daily_goal_display(
                schedule_notifications_for_task(
                    Show(remove_xp(s1, t.xp), <<"popup", "remove", t.xp>>),
                    s1.tasks[id]))

(* toggle_task up to its confirmation dialog *)
toggle_task_opens(s, id) ==
    IF id \notin DOMAIN s.tasks
    THEN Show(s, <<"error", "Could not find the task to toggle.">>)
    ELSE IF s.tasks[id].xp >= XP_CONFIRMATION_THRESHOLD
    THEN [s EXCEPT !.dialog = ConfirmToggle(id)]
    ELSE toggle_task_proceeds(s, id)

toggle_task_answered(s, confirm) ==
    IF ~confirm THEN [s EXCEPT !.dialog = NoDialog]
    ELSE toggle_task_proceeds(s, s.dialog.id)

(* delete_task up to its confirmation dialog, and from the answer on *)
delete_task_opens(s, id) ==
    IF id \notin DOMAIN s.tasks
    THEN Show(s, <<"error", "Could not find the task to delete.">>)
    ELSE [s EXCEPT !.dialog = ConfirmDelete(id)]

delete_task_answered(s, confirm) ==
    delete_task([s EXCEPT !.dialog = NoDialog], s.dialog.id, confirm)

(* undo_delete_task, waiting in the level-up messages of its add_xp *)
undo_delete_task_modal(s) ==
    IF DOMAIN s.recently_deleted_tasks = {}
    THEN Show(s, <<"info", "No Undo Available">>)
    ELSE LET id == FirstKey(s.recently_deleted_tasks)
             task_data == s.recently_deleted_tasks[id]
             s1 == [s EXCEPT !.recently_deleted_tasks = Del(@, id),
                             !.timers = after_cancel(@, UndoTimer(id))]
             s2 == save_tasks([s1 EXCEPT !.tasks = Put(@, id, task_data)])
         IN IF task_data.done
            THEN add_xp_modal(s2, task_data.xp, id, "undo_delete_task")
            ELSE Show(hide_undo_notification(update_daily_goal_display(
                          schedule_notifications_for_task(s2, task_data))),
                      <<"info", "Task Restored">>)

ModalAddTask(data) ==
    /\ dialog = NoDialog
    /\ disk = NoFiles
    /\ next_id < MaxIds
    /\ Commit(add_task_from_entry(App, <<data.task>>, data))

ToggleOpens(id) ==
    /\ dialog = NoDialog
    /\ disk = NoFiles
    /\ Commit(toggle_task_opens(App, id))

ToggleAnswered(confirm) ==
    /\ dialog.op = "toggle_task"
    /\ Commit(toggle_task_answered(App, confirm))

LevelUpClosed ==
    /\ dialog.op = "add_xp"
    /\ Commit(level_up_closed(App))

DeleteOpens(id) ==
    /\ dialog = NoDialog
    /\ disk = NoFiles
    /\ Commit(delete_task_opens(App, id))

DeleteAnswered(confirm) ==
    LET r == delete_task_answered(App, confirm) IN
    /\ dialog.op = "delete_task"
    /\ Len(r.timers) <= ModalMaxTimers
    /\ Commit(r)

ModalUndoDeleteTask ==
    /\ dialog = NoDialog
    /\ disk = NoFiles
    /\ Commit(undo_delete_task_modal(App))

(* the user's clicks reach the main window only while no dialog is open;   *)
(* the timer callbacks run whenever they are due                           *)
ModalNext ==
    \/ \E data \in ModalDialogData : ModalAddTask(data)
    \/ \E id \in TaskIds : ToggleOpens(id)
    \/ \E confirm \in BOOLEAN : ToggleAnswered(confirm)
    \/ LevelUpClosed
    \/ \E id \in TaskIds : DeleteOpens(id)
    \/ \E confirm \in BOOLEAN : DeleteAnswered(confirm)
    \/ ModalUndoDeleteTask
    \/ UndoTimeout
    \/ HideTimeout
    \/ PerformAutoSave

SpecModal == Init /\ [][ModalNext]_vars

----------------------------------------------------------------------------
(* DataManager on its own (src/data_manager.py): the save methods applied  *)
(* to every state of the four files, with successive versions of the data. *)

MaxVersions == 2     \* versions of the data of one file

Versions == 1..MaxVersions
Content(v) == [exists |-> TRUE, data |-> v]

(* open(file_path, "w") and json.dump *)
write_json(s, file_path, v) == [s EXCEPT !.disk[file_path].file = Content(v)]

(* _backup_file: os.replace(file_path, file_path + ".bak"), or, when that  *)
(* raises OSError, shutil.copy2, which leaves the file in place            *)
backup_file(s, file_path, replaced) ==
    IF s.disk[file_path].file.exists
    THEN [s EXCEPT !.disk[file_path] =
                       [file |-> IF replaced THEN Missing ELSE @.file,
                        bak |-> @.file]]
    ELSE s

(* _save_json *)
save_json(s, file_path, v, replaced) ==
    write_json(backup_file(s, file_path, replaced), file_path, v)

save_tasks_data(s, v, replaced) == save_json(s, "data_file", v, replaced)
save_categories_data(s, v, replaced) == save_json(s, "categories_file", v, replaced)
save_goals_data(s, v, replaced) == save_json(s, "goals_file", v, replaced)

(* save_recurring_tasks_data: _save_json, then _backup_file and the dump   *)
(* a second time                                                           *)
save_recurring_tasks_data(s, v, replaced) ==
    write_json(backup_file(save_json(s, "recurring_tasks_file", v, replaced),
                           "recurring_tasks_file", replaced),
               "recurring_tasks_file", v)

SaveTasksData(v, replaced) == Commit(save_tasks_data(App, v, replaced))
SaveCategoriesData(v, replaced) == Commit(save_categories_data(App, v, replaced))
SaveGoalsData(v, replaced) == Commit(save_goals_data(App, v, replaced))
SaveRecurringTasksData(v, replaced) == Commit(save_recurring_tasks_data(App, v, replaced))

DiskNext ==
    \/ \E v \in Versions, replaced \in BOOLEAN : SaveTasksData(v, replaced)
    \/ \E v \in Versions, replaced \in BOOLEAN : SaveCategoriesData(v, replaced)
    \/ \E v \in Versions, replaced \in BOOLEAN : SaveGoalsData(v, replaced)
    \/ \E v \in Versions, replaced \in BOOLEAN : SaveRecurringTasksData(v, replaced)

SpecDisk == Init /\ [][DiskNext]_vars

----------------------------------------------------------------------------
(* Vocabulary of the properties *)

ValidProgression(lvl, xp) ==
    lvl >= 1 /\ 0 <= xp /\ xp < xp_needed_for_level(lvl)

RECURSIVE ThresholdsBelow(_)
ThresholdsBelow(lvl) ==
    IF lvl <= 1 THEN 0 ELSE xp_needed_for_level(lvl - 1) + ThresholdsBelow(lvl - 1)

(* lifetime XP: the thresholds of the levels below the current one plus total_xp *)
LifetimeXp(lvl, xp) == ThresholdsBelow(lvl) + xp

CallLifetime0 == LifetimeXp(call.level0, call.xp0)

Progression(s) == [level |-> s.level, total_xp |-> s.total_xp]

----------------------------------------------------------------------------
SpecCurve(lvl) ==
    IF lvl <= 0 THEN 0
    ELSE IF lvl <= 6 THEN <<100, 150, 250, 400, 600, 900>>[lvl]
    ELSE 900 + (lvl - 6) * 300

C2_SpecCurve ==
    call.fn = "xp_needed_for_level" => call.ret = SpecCurve(call.arg)

(* C2 amended: xp_needed_for_level(level) is level * 100 for every         *)
(* level >= 1 and 0 for every level <= 0.                                  *)
C2_LinearCurve ==
    call.fn = "xp_needed_for_level" =>
        /\ call.arg <= 0 => call.ret = 0
        /\ call.arg >= 1 => call.ret = 100 * call.arg

C2_Witness ==
    call.fn = "xp_needed_for_level" /\ call.arg = 6 /\ call.ret = 600

(* C3: add_xp(amount), amount >= 0, conserves lifetime XP: the lifetime    *)
(* XP after the call is the lifetime XP before it plus amount, over as     *)
(* many levels as the amount crosses.                                      *)
C3_AddConservesLifetime ==
    call.fn = "add_xp" => LifetimeXp(level, total_xp) = CallLifetime0 + call.arg

(* level 1 with 90 XP, plus 1000: four levels crossed, lifetime 1090 *)
C3_Witness ==
    /\ call.fn = "add_xp" /\ call.level0 = 1 /\ call.xp0 = 90 /\ call.arg = 1000
    /\ level = 5 /\ total_xp = 90
    /\ LifetimeXp(level, total_xp) = 1090

(* C4: an add_xp call that raises the level by N shows N level-up dialogs  *)
(* and sends N level-up notifications, one pair per level crossed, each    *)
(* naming the level just reached, in order; none when the level stays.     *)
C4_OneEventPerLevel ==
    call.fn = "add_xp" =>
        /\ Len(shown) = 2 * (level - call.level0)
        /\ \A i \in 1..(level - call.level0) :
              /\ shown[2 * i - 1] = LevelUpInfo(call.level0 + i)
              /\ shown[2 * i] = LevelUpNotification(call.level0 + i)

C4_Witness ==
    call.fn = "add_xp" /\ level - call.level0 = 3 /\ Len(shown) = 6

(* C5: remove_xp(amount) from a valid state whose lifetime XP is at least  *)
(* amount ends in the valid state whose lifetime XP is exactly amount      *)
(* less, and never below level 1.                                          *)
C5_RemoveExact ==
    (call.fn = "remove_xp" /\ CallLifetime0 >= call.arg) =>
        /\ ValidProgression(level, total_xp)
        /\ LifetimeXp(level, total_xp) = CallLifetime0 - call.arg

(* two levels stepped down in one call *)
C5_Witness ==
    /\ call.fn = "remove_xp" /\ CallLifetime0 >= call.arg
    /\ call.level0 - level >= 2

(* C6: remove_xp(amount) with amount larger than the lifetime XP ends at   *)
(* level 1 with total_xp 0.                                                *)
C6_RemoveFloor ==
    (call.fn = "remove_xp" /\ call.arg > CallLifetime0) =>
        (level = 1 /\ total_xp = 0)

(* level 1 with 10 XP, minus 500 *)
C6_Witness ==
    /\ call.fn = "remove_xp" /\ call.level0 = 1 /\ call.xp0 = 10 /\ call.arg = 500
    /\ level = 1 /\ total_xp = 0

(* C7: remove_xp(amount) directly after add_xp(amount), with               *)
(* 0 <= amount < xp_needed_for_level(level) - total_xp before the add,     *)
(* gives back the (level, total_xp) the add started from.                  *)
C7_AddRemoveInverse ==
    (call.fn = "remove_xp" /\ call.chained) =>
        (level = call.prev_level0 /\ total_xp = call.prev_xp0)

C7_Witness ==
    /\ call.fn = "remove_xp" /\ call.chained /\ call.arg > 0
    /\ level = call.prev_level0 /\ total_xp = call.prev_xp0

(* C8: toggle_task on a task of the store, confirmed where confirmation    *)
(* is asked, flips the done flag of that task and nothing else in the      *)
(* store, applies add_xp(xp) when the task becomes done and remove_xp(xp)  *)
(* when it becomes not done, and leaves the undo slot and its timers as    *)
(* they were; below the confirmation threshold the answer plays no part.   *)
C8_ToggleFrame ==
    \A id \in DOMAIN tasks :
        LET t == tasks[id]
            r == toggle_task(App, id, TRUE)
            a == add_xp_result(level, total_xp, t.xp)
        IN /\ r.tasks = [tasks EXCEPT ![id] = [t EXCEPT !.done = ~t.done]]
           /\ Progression(r) = IF t.done
                                THEN remove_xp_result(level, total_xp, t.xp)
                                ELSE [level |-> a.level, total_xp |-> a.total_xp]
           /\ r.recently_deleted_tasks = recently_deleted_tasks
           /\ r.timers = timers
           /\ r.undo_notification_id = undo_notification_id
           /\ r.current_date = current_date
           /\ t.xp < XP_CONFIRMATION_THRESHOLD => toggle_task(App, id, FALSE) = r

(* a task was toggled to done and its 120 XP crossed level 1, with a       *)
(* deletion pending                                                        *)
C8_Witness ==
    /\ shown = <<LevelUpInfo(2), LevelUpNotification(2), <<"popup", "add", 120>> >>
    /\ \E id \in DOMAIN tasks : tasks[id].done /\ tasks[id].xp = 120
    /\ DOMAIN recently_deleted_tasks # {}

(* C9: toggle_task with an id that is not in the current store shows the   *)
(* error dialog and changes nothing: Progression State, store, tasks file, *)
(* undo slot and timers are as before.                                     *)
C9_StaleToggle ==
    \A id \in TaskIds \ DOMAIN tasks : \A confirm \in BOOLEAN :
        toggle_task(App, id, confirm) =
            [App EXCEPT !.shown = << <<"error", "Could not find the task to toggle.">> >>]

(* every id has been handed out, one task is held in the undo slot, and a  *)
(* toggle has just failed                                                  *)
C9_Witness ==
    /\ shown = << <<"error", "Could not find the task to toggle.">> >>
    /\ next_id = MaxIds
    /\ DOMAIN recently_deleted_tasks # {}
    /\ DOMAIN recently_deleted_tasks \cap DOMAIN tasks = {}

(* C10: deleting a done task with XP x removes it from the store and       *)
(* subtracts x from the lifetime XP; the undo that follows puts the same   *)
(* task back under its id and re-adds x, so that level and total_xp are    *)
(* what they were before the delete.                                       *)
C10_UndoRoundTrip ==
    \A id \in DOMAIN tasks :
        tasks[id].done =>
            LET d == delete_task(App, id, TRUE)
                u == undo_delete_task([d EXCEPT !.shown = <<>>])
            IN /\ id \notin DOMAIN d.tasks
               /\ LifetimeXp(d.level, d.total_xp)
                      = LifetimeXp(level, total_xp) - tasks[id].xp
               /\ id \in DOMAIN u.tasks
               /\ u.tasks[id] = tasks[id]
               /\ Progression(u) = Progression(App)

----------------------------------------------------------------------------
(* Soft delete and undo *)

Slot == DOMAIN recently_deleted_tasks

NoUndoAvailable == <<"info", "No Undo Available">>

(* C11: deleting B while A is pending finalizes A and makes B the sole     *)
(* undoable entry; an undo issued at any moment before B's own deadline,   *)
(* that is after any number of the timers armed before B's deadline timer  *)
(* have expired, restores B and only B, never A.                           *)
C11_UndoRestoresLatest ==
    \A b \in DOMAIN tasks : \A a \in Slot \ {b} :
        LET d == delete_task(App, b, TRUE)
            n == LastIndex(d.timers, UndoTimer(b), Len(d.timers))
        IN /\ DOMAIN d.recently_deleted_tasks = {b}
           /\ \A k \in 0..(n - 1) :
                 LET u == undo_delete_task(fire_timers(d, k))
                 IN /\ b \in DOMAIN u.tasks
                    /\ u.tasks[b] = tasks[b]
                    /\ a \notin DOMAIN u.tasks

(* C12: the undo slot holds at most one task in every reachable state.     *)
C12_SlotAtMostOne ==
    Cardinality(Slot) <= 1

(* a second deletion has replaced the first one in the slot *)
C12_Witness ==
    /\ Slot = {2}
    /\ timers = <<HideTimer, UndoTimer(2), HideTimer>>
    /\ 1 \notin DOMAIN tasks

(* C13: a pending deletion stays recoverable until its own deadline: the   *)
(* expiry of any timer other than the deadline timer of the task held in   *)
(* the slot leaves the slot as it is.                                      *)
C13_SlotKeptUntilOwnDeadline ==
    (timers # <<>> /\ Slot # {} /\ Head(timers) # UndoTimer(FirstKey(recently_deleted_tasks)))
        => fire_timer(App).recently_deleted_tasks = recently_deleted_tasks

(* C14: once the deadline timer of a pending deletion has expired the slot *)
(* is empty and a later undo restores nothing; an undo empties the slot,   *)
(* so a second undo restores nothing either.                               *)
C14_FinalAndOnce ==
    /\ (timers # <<>> /\ Head(timers).kind = "undo") =>
          LET p == fire_timer(App)
              u == undo_delete_task(p)
          IN /\ p.recently_deleted_tasks = EmptyDict
             /\ u = Show(p, NoUndoAvailable)
    /\ Slot # {} =>
          LET u1 == undo_delete_task(App)
              u2 == undo_delete_task(u1)
          IN /\ u1.recently_deleted_tasks = EmptyDict
             /\ u2 = Show(u1, NoUndoAvailable)

(* the deadline of the only deletion has expired, then undo was pressed *)
C14_Witness ==
    /\ shown = <<NoUndoAvailable>>
    /\ timers = <<HideTimer>>
    /\ next_id = 1
    /\ tasks = EmptyDict
    /\ tasks_file.days[current_date] = EmptyDict

(* C15: undo_delete_task with an empty slot only informs the user: store,  *)
(* tasks file, Progression State, slot and timers are unchanged.           *)
C15_UndoEmptySlot ==
    Slot = {} => undo_delete_task(App) = [App EXCEPT !.shown = <<NoUndoAvailable>>]

(* undo pressed with nothing pending, a task in the store and XP earned *)
C15_Witness ==
    /\ shown = <<NoUndoAvailable>>
    /\ Slot = {}
    /\ timers = <<>>
    /\ level = 2
    /\ \E id \in DOMAIN tasks : tasks[id].done

(* C16: delete applies remove_xp(xp) for a done task at the moment of the  *)
(* delete (lowering the lifetime XP by xp whenever that much is there) and *)
(* leaves Progression State alone for a task not done; finalization, by    *)
(* the deadline timer or by a newer deletion, changes neither Progression  *)
(* State nor the store in memory and leaves the slot empty.                *)
C16_XpAtDelete ==
    /\ \A id \in DOMAIN tasks :
          LET t == tasks[id]
              d == delete_task(App, id, TRUE)
          IN /\ Progression(d) = IF t.done
                                  THEN remove_xp_result(level, total_xp, t.xp)
                                  ELSE Progression(App)
             /\ (t.done /\ LifetimeXp(level, total_xp) >= t.xp) =>
                    LifetimeXp(d.level, d.total_xp) = LifetimeXp(level, total_xp) - t.xp
    /\ \A id \in Slot :
          LET p == permanently_delete_task(App, id, TRUE)
          IN /\ Progression(p) = Progression(App)
             /\ p.tasks = tasks
             /\ p.recently_deleted_tasks = EmptyDict
    /\ (timers # <<>> /\ Head(timers).kind = "undo") =>
          LET p == fire_timer(App)
          IN /\ Progression(p) = Progression(App)
             /\ p.tasks = tasks
             /\ p.recently_deleted_tasks = EmptyDict

(* a done task of 120 XP is pending deletion and its XP is already gone *)
C16_Witness ==
    /\ Slot # {}
    /\ \A id \in Slot : recently_deleted_tasks[id].done /\ recently_deleted_tasks[id].xp = 120
    /\ level = 1 /\ total_xp = 0
    /\ tasks_file.level = 1
    /\ timers = <<UndoTimer(1), HideTimer>>

----------------------------------------------------------------------------
(* Recurring generation *)

Definitions == 1..Len(recurring_tasks)

IsRecurringInstance(t) == "is_recurring_instance" \in DOMAIN t

(* the tasks of description name that s1 holds under ids handed out after s0 *)
NewInstances(s0, s1, name) ==
    {id \in DOMAIN s1.tasks : id > s0.next_id /\ s1.tasks[id].task = name}

TasksNamed(store, name) == {id \in DOMAIN store : store[id].task = name}

GeneratedOnce == generate_daily_tasks_from_recurring(App)
GeneratedTwice == generate_daily_tasks_from_recurring(GeneratedOnce)

NeverGenerated(i) == recurring_tasks[i].last_generated_date = NoDate

(* C17 as stated: two runs of the generator for the viewed date on a daily *)
(* definition with last_generated_date = None create exactly one instance  *)
(* of it in total, and last_generated_date is that date after each run.    *)
C17_ExactlyOneInstance ==
    \A i \in Definitions :
        (recurring_tasks[i].recurrence_type = "daily" /\ NeverGenerated(i)) =>
            /\ Cardinality(NewInstances(App, GeneratedTwice, recurring_tasks[i].task)) = 1
            /\ GeneratedOnce.recurring_tasks[i].last_generated_date = current_date
            /\ GeneratedTwice.recurring_tasks[i].last_generated_date = current_date

(* C17 amended: the first run creates exactly one instance when no task of *)
(* the day has the definition's description and none when one has; the     *)
(* second run creates nothing; last_generated_date is the viewed date      *)
(* after the first run and after the second.                               *)
C17_Idempotent ==
    \A i \in Definitions :
        (recurring_tasks[i].recurrence_type = "daily" /\ NeverGenerated(i)) =>
            LET name == recurring_tasks[i].task IN
            /\ Cardinality(NewInstances(App, GeneratedOnce, name))
                  = IF TasksNamed(tasks, name) = {} THEN 1 ELSE 0
            /\ GeneratedTwice = GeneratedOnce
            /\ GeneratedOnce.recurring_tasks[i].last_generated_date = current_date
            /\ GeneratedTwice.recurring_tasks[i].last_generated_date = current_date

(* the daily definition was generated for the viewed date, its only        *)
(* instance was saved, and the date was loaded again                       *)
C17_Witness ==
    /\ Len(recurring_tasks) = 1
    /\ recurring_tasks[1].recurrence_type = "daily"
    /\ recurring_tasks[1].last_generated_date = current_date
    /\ next_id = 1
    /\ DOMAIN tasks = {1} /\ IsRecurringInstance(tasks[1])
    /\ tasks_file.days[current_date] = tasks

(* C18 as stated: a weekly definition not yet generated for the viewed     *)
(* date gets no instance on a date whose weekday is not among its days     *)
(* (Tuesday for {Mon, Wed}) and exactly one on a date whose weekday is     *)
(* (Monday).                                                               *)
C18_WeeklyGate ==
    \A i \in Definitions :
        LET r == recurring_tasks[i] IN
        (r.recurrence_type = "weekly"
            /\ (r.last_generated_date = NoDate \/ r.last_generated_date < current_date)) =>
            Cardinality(NewInstances(App, GeneratedOnce, r.task))
                = IF Weekday(current_date) \in r.recurrence_value THEN 1 ELSE 0

(* C18 amended: a weekly definition gets no instance on a date whose       *)
(* weekday is not among its days, whatever its last_generated_date; on a   *)
(* date whose weekday is among them, later than its last_generated_date,   *)
(* it gets exactly one instance when no task of the day has its            *)
(* description and none when one has.                                      *)
C18_WeeklyGateByName ==
    \A i \in Definitions :
        LET r == recurring_tasks[i]
            created == NewInstances(App, GeneratedOnce, r.task)
        IN r.recurrence_type = "weekly" =>
            /\ Weekday(current_date) \notin r.recurrence_value =>
                  /\ created = {}
                  /\ GeneratedOnce.recurring_tasks[i] = r
            /\ (Weekday(current_date) \in r.recurrence_value
                   /\ (r.last_generated_date = NoDate \/ r.last_generated_date < current_date)) =>
                  /\ Cardinality(created) = IF TasksNamed(tasks, r.task) = {} THEN 1 ELSE 0
                  /\ GeneratedOnce.recurring_tasks[i].last_generated_date = current_date

(* the {Mon, Wed} definition got its instance on Monday (date 1), saved    *)
(* there; the Tuesday load that followed created none                      *)
C18_Witness ==
    /\ current_date = 2
    /\ Weekday(current_date) = "Tue"
    /\ Len(recurring_tasks) >= 1
    /\ recurring_tasks[1].recurrence_type = "weekly"
    /\ recurring_tasks[1].last_generated_date = 1
    /\ TasksNamed(tasks, "w") = {}
    /\ \E id \in DOMAIN tasks_file.days[1] :
          tasks_file.days[1][id].task = "w" /\ IsRecurringInstance(tasks_file.days[1][id])

Due(r, d) ==
    \/ r.recurrence_type = "daily"
    \/ r.recurrence_type = "weekly" /\ Weekday(d) \in r.recurrence_value

(* C19: after every day-load of a date D, each recurring definition due on *)
(* D has exactly one task of its description in the store of D.            *)
C19_OneInstancePerDueDefinition ==
    \A d \in Dates :
        LET l == select_date(App, d) IN
        \A i \in Definitions :
            Due(recurring_tasks[i], d) =>
                Cardinality(TasksNamed(l.tasks, recurring_tasks[i].task)) = 1

(* C20: once the generator has visited date D for every definition of a    *)
(* description, deleting the generated instance of that description and    *)
(* running the generator again for D, directly or by loading D again after *)
(* the deletion is finalized, creates no new instance of it.               *)
C20_NoRegeneration ==
    \A id \in DOMAIN tasks :
        LET t == tasks[id] IN
        (/\ IsRecurringInstance(t)
         /\ \E i \in Definitions : recurring_tasks[i].task = t.task
         /\ \A i \in Definitions :
               recurring_tasks[i].task = t.task =>
                   recurring_tasks[i].last_generated_date = current_date) =>
            LET d == delete_task(App, id, TRUE)
                f == fire_timers(d, Len(d.timers))
                l == select_date(f, current_date)
            IN /\ id \notin DOMAIN d.tasks
               /\ NewInstances(d, generate_daily_tasks_from_recurring(d), t.task) = {}
               /\ NewInstances(d, l, t.task) = {}

(* the instance generated for the viewed date has been deleted and is held *)
(* in the undo slot; its definition has last_generated_date = D            *)
C20_Witness ==
    /\ Len(recurring_tasks) = 1
    /\ recurring_tasks[1].task = "r"
    /\ recurring_tasks[1].last_generated_date = current_date
    /\ Slot = {1}
    /\ IsRecurringInstance(recently_deleted_tasks[1])
    /\ tasks = EmptyDict
    /\ timers = <<UndoTimer(1), HideTimer>>


----------------------------------------------------------------------------
(* Editing *)

(* C21: editing a done task from XP old to a different XP new changes the  *)
(* lifetime XP of the progression by exactly new - old, and the task then  *)
(* shows new.                                                              *)
C21_EditCompensates ==
    \A id \in DOMAIN tasks, data \in DialogData :
        (tasks[id].done /\ data.xp # tasks[id].xp) =>
            LET e == edit_task(App, id, data) IN
            /\ e.tasks[id].xp = data.xp
            /\ LifetimeXp(e.level, e.total_xp)
                   = LifetimeXp(level, total_xp) + data.xp - tasks[id].xp

(* C22: an add whose entry text is empty after trimming is rejected with   *)
(* a warning and changes nothing; a successful add inserts exactly one new *)
(* task, not done, under an id that no task of the store has, and changes  *)
(* no existing task and no progression state.                              *)
C22_AddTask ==
    \A entry \in Entries, data \in DialogData \cup {Cancelled} :
        LET a == add_task_from_entry(App, entry, data) IN
        /\ strip(entry) = <<>> =>
               a = Show(App, <<"warning", "Task description cannot be empty.">>)
        /\ (strip(entry) # <<>> /\ data # Cancelled) =>
               \E id \in DOMAIN a.tasks \ DOMAIN tasks :
                   /\ DOMAIN a.tasks = DOMAIN tasks \cup {id}
                   /\ a.tasks[id].done = FALSE
                   /\ a.tasks[id].id = id
                   /\ \A j \in DOMAIN tasks : a.tasks[j] = tasks[j]
                   /\ a.level = level /\ a.total_xp = total_xp

(* a blank entry was rejected after two adds had succeeded *)
C22_Witness ==
    /\ shown = <<<<"warning", "Task description cannot be empty.">>>>
    /\ Cardinality(DOMAIN tasks) = 2

----------------------------------------------------------------------------
(* Rejected and abandoned operations *)

(* C27: edit_task and delete_task called with an id that is not in the     *)
(* store show an error and change nothing else (store, progression, undo   *)
(* slot, timers, files); a cancelled edit dialog and a declined delete     *)
(* confirmation change nothing at all.                                     *)
C27_RejectedUnchanged ==
    /\ \A id \in TaskIds \ DOMAIN tasks :
           /\ \A data \in DialogData \cup RemDialogData \cup {Cancelled} :
                  edit_task(App, id, data)
                      = Show(App, <<"error", "Could not find the task to edit.">>)
           /\ \A confirm \in BOOLEAN :
                  delete_task(App, id, confirm)
                      = Show(App, <<"error", "Could not find the task to delete.">>)
    /\ \A id \in DOMAIN tasks :
           /\ edit_task(App, id, Cancelled) = App
           /\ delete_task(App, id, FALSE) = App

(* an edit or delete of an id that is absent was rejected while a task    *)
(* with an armed reminder is in the store and another task is pending in   *)
(* the undo slot                                                           *)
C27_Witness ==
    /\ \/ shown = <<<<"error", "Could not find the task to edit.">>>>
       \/ shown = <<<<"error", "Could not find the task to delete.">>>>
    /\ DOMAIN tasks # {}
    /\ reminders # EmptyBag
    /\ Slot # {}
    /\ TaskIds \ DOMAIN tasks # {}

----------------------------------------------------------------------------
(* Store, slot and progression *)

(* C29: the id of the task held in the undo slot is never a key of the     *)
(* current store.                                                          *)
C29_SlotIdNotInStore ==
    \A id \in Slot : id \notin DOMAIN tasks

(* sum of xp over the done tasks of a store among the given ids *)
RECURSIVE DoneXp(_, _)
DoneXp(store, ids) ==
    IF ids = {} THEN 0
    ELSE LET id == CHOOSE k \in ids : TRUE
         IN (IF store[id].done THEN store[id].xp ELSE 0) + DoneXp(store, ids \ {id})

(* the same over the persisted stores of the given days, the id held in    *)
(* the undo slot left out                                                  *)
RECURSIVE PersistedDoneXp(_)
PersistedDoneXp(days) ==
    IF days = {} THEN 0
    ELSE LET d == CHOOSE k \in days : TRUE
         IN DoneXp(tasks_file.days[d], DOMAIN tasks_file.days[d] \ Slot)
                + PersistedDoneXp(days \ {d})

(* C30: the lifetime XP of the progression equals the sum of xp over the   *)
(* done tasks of all days (the viewed day in memory, the others as         *)
(* persisted), a task held in the undo slot left out.  Where the store of  *)
(* the viewed day has a task under the id held in the slot, the equation   *)
(* may hold with that task counted or with it left out.                    *)
C30_LifetimeIsDoneXp ==
    \/ LifetimeXp(level, total_xp)
           = DoneXp(tasks, DOMAIN tasks \ Slot) + PersistedDoneXp(Dates \ {current_date})
    \/ LifetimeXp(level, total_xp)
           = DoneXp(tasks, DOMAIN tasks) + PersistedDoneXp(Dates \ {current_date})

----------------------------------------------------------------------------
(* Daily XP *)

(* C23: after every operation daily_xp_today equals the sum of xp over the *)
(* done tasks of the viewed day.                                           *)
C23_DailyXpIsDoneXp ==
    daily_xp_today = DoneXp(tasks, DOMAIN tasks)

----------------------------------------------------------------------------
(* Reminders *)

Signaled(s) == {i \in 1..Len(s.shown) : s.shown[i][2] = "Task Reminder!"}

(* every reminder timer that could have been armed for an id *)
PossibleReminders ==
    {ReminderTimer(id, target_time(due)) : id \in TaskIds, due \in RemDueTimes \ {"None"}}

(* C24: the callback of a reminder timer signals a reminder only if the    *)
(* task with that id is in the store and not done at that moment, and then *)
(* it signals that task once; for a task that is done or absent it signals *)
(* nothing.  In both cases it changes no task, no XP state and no file.    *)
C24_ReminderRechecks ==
    \A t \in PossibleReminders :
        LET r == trigger_task_notification(App, t) IN
        /\ (t.id \in DOMAIN tasks /\ ~tasks[t.id].done)
               => r.shown = <<TaskReminder(tasks[t.id])>>
        /\ ~(t.id \in DOMAIN tasks /\ ~tasks[t.id].done) => r.shown = <<>>
        /\ r.tasks = tasks /\ r.tasks_file = tasks_file
        /\ r.level = level /\ r.total_xp = total_xp
        /\ r.recently_deleted_tasks = recently_deleted_tasks
        /\ r.daily_xp_today = daily_xp_today

(* a reminder has just been signaled for a task that is in the store, not  *)
(* done, and whose due time has come                                       *)
C24_Witness ==
    /\ Len(shown) = 1 /\ shown[1][2] = "Task Reminder!"
    /\ now = EndMinute
    /\ \E id \in DOMAIN tasks : ~tasks[id].done /\ tasks[id].due_time = "09:00"
    /\ \E id \in DOMAIN tasks : tasks[id].done /\ tasks[id].due_time = "09:00"

Armed == BagToSet(reminders)

(* C25: each task id has at most one armed reminder timer, and every armed *)
(* reminder belongs to a task that is in the store, is not done and has a  *)
(* due time; the handle kept for an id names the armed timer.  Toggling to *)
(* done and deleting leave no reminder for the task, an edit leaves        *)
(* exactly the reminder of the new due time, undo re-arms it.              *)
C25_RemindersMatchTasks ==
    /\ \A t \in Armed :
           /\ CopiesIn(t, reminders) = 1
           /\ \A u \in Armed : u.id = t.id => u = t
           /\ t.id \in DOMAIN tasks
           /\ ~tasks[t.id].done
           /\ tasks[t.id].due_time # "None"
           /\ t.at = target_time(tasks[t.id].due_time)
    /\ \A id \in DOMAIN tasks :
           /\ ~tasks[id].done =>
                  \A u \in BagToSet(toggle_task(App, id, TRUE).reminders) : u.id # id
           /\ \A u \in BagToSet(delete_task(App, id, TRUE).reminders) : u.id # id
           /\ \A data \in RemDialogData :
                  LET e == edit_task(App, id, data)
                      mine == {u \in BagToSet(e.reminders) : u.id = id}
                  IN IF ~tasks[id].done /\ data.due_time # "None"
                          /\ target_time(data.due_time) > now
                     THEN mine = {ReminderTimer(id, target_time(data.due_time))}
                     ELSE mine = {}
    /\ \A id \in Slot :
           LET u == undo_delete_task(App)
               task == recently_deleted_tasks[id]
               mine == {x \in BagToSet(u.reminders) : x.id = id}
           IN IF ~task.done /\ task.due_time # "None" /\ target_time(task.due_time) > now
              THEN mine = {ReminderTimer(id, target_time(task.due_time))}
              ELSE mine = {}

(* two tasks with a due time, one with its reminder armed, the other done  *)
(* and without one                                                         *)
C25_Witness ==
    /\ \E id \in DOMAIN tasks :
           /\ ~tasks[id].done
           /\ BagIn(ReminderTimer(id, target_time("09:00")), reminders)
    /\ \E id \in DOMAIN tasks :
           /\ tasks[id].done /\ tasks[id].due_time = "09:00"
           /\ id \notin DOMAIN scheduled_notifications

----------------------------------------------------------------------------
(* Validation of XP values *)

(* C26: no task of the store has a negative XP value.                      *)
C26_NoNegativeXp ==
    \A id \in DOMAIN tasks : tasks[id].xp >= 0

----------------------------------------------------------------------------
(* Sorting *)

LowerNotAfter(x, y) == ~key_less(codes(lower(y)), codes(lower(x)))

----------------------------------------------------------------------------
(* Durability of deletions and of the days' stores *)

(* C31: a finalized deletion is durable: after the finalization of the     *)
(* task held in the slot (_permanently_delete_task, called by the deadline *)
(* timer or by a newer deletion) the task is in neither the store in       *)
(* memory nor the persisted tasks of any day, and no reload of a day       *)
(* brings it back.                                                         *)
C31_FinalizedDurable ==
    \A id \in Slot :
        LET p == permanently_delete_task(App, id, TRUE)
        IN /\ id \notin DOMAIN p.tasks
           /\ \A d \in Dates :
                 /\ id \notin DOMAIN p.tasks_file.days[d]
                 /\ id \notin DOMAIN select_date(p, d).tasks

(* C32: switching the viewed date from D to another date and back to D     *)
(* loses no task: every task of D's store before the switch is in D's      *)
(* store afterwards with the same fields.                                  *)
C32_SwitchAndBackKeepsTasks ==
    \A other \in Dates \ {current_date} :
        LET away == select_date(App, other)
            back == select_date(away, current_date)
        IN \A id \in DOMAIN tasks :
               id \in DOMAIN back.tasks /\ back.tasks[id] = tasks[id]

(* the dates under which the tasks file holds a task of this id *)
DatesOf(id) == {d \in Dates : id \in DOMAIN tasks_file.days[d]}

(* C33: undo puts the task back into the store of the day it was deleted   *)
(* from: no task of the viewed day's store is a task persisted under       *)
(* another date, and no task id is present under two different dates.      *)
C33_UndoIntoOwnDay ==
    /\ \A id \in DOMAIN tasks : DatesOf(id) \subseteq {current_date}
    /\ \A id \in TaskIds : Cardinality(DatesOf(id)) <= 1

----------------------------------------------------------------------------
(* Editing without a change of XP *)

LevelUps(s) == {i \in 1..Len(s.shown) : s.shown[i][2] = "Level Up!"}

(* C34: editing a done task without changing its XP (only description or   *)
(* due time) leaves level and total_xp unchanged and reports no level-up.  *)
C34_EditSameXpSilent ==
    \A id \in DOMAIN tasks, data \in DialogData :
        (tasks[id].done /\ data.xp = tasks[id].xp) =>
            LET e == edit_task(App, id, data)
            IN /\ Progression(e) = Progression(App)
               /\ LevelUps(e) = {}

----------------------------------------------------------------------------
(* Resolution of pending deletions *)

ArmedDeadlines == {timers[i].id : i \in {j \in 1..Len(timers) : timers[j].kind = "undo"}}

(* the slot is empty again some time after every moment it holds a task *)
PendingEventuallyResolved == (Slot # {}) ~> (Slot = {})

(* C35: every pending deletion is eventually resolved, armed timers        *)
(* eventually firing, and no undo-deadline timer stays armed for a task    *)
(* that is no longer in the slot.  PendingEventuallyResolved is the first  *)
(* half; this is the second: every armed deadline timer belongs to the     *)
(* task held in the slot.                                                  *)
C35_NoOrphanDeadline ==
    ArmedDeadlines \subseteq Slot

----------------------------------------------------------------------------
(* Handlers and timer callbacks *)

(* the progression in the tasks file is one that add_xp or remove_xp       *)
(* returned with                                                           *)
SavedProgressionWhole == ValidProgression(tasks_file.level, tasks_file.total_xp)

(* C36: a user operation runs to completion without a timer callback       *)
(* running in the middle of it: while a handler waits in a modal dialog,   *)
(* from the moment the dialog opens until it is closed, no timer expires   *)
(* and nothing is saved or changed in the store, the progression or the    *)
(* undo slot.                                                              *)
C36_NoCallbackInsideOperation ==
    [][(dialog # NoDialog /\ dialog' = dialog)
           => UNCHANGED <<timers, tasks_file, tasks, level, total_xp,
                          recently_deleted_tasks>>]_vars

----------------------------------------------------------------------------
(* Goal-met popup *)

GoalMetShownBy(out) == \E i \in 1..Len(out) : out[i] = GoalMetPopup

(* the toggles, edits, deletes and undos the user can issue on the viewed day *)
DayOperations ==
    [op : {"toggle_task", "edit_task", "delete_task", "undo_delete_task"},
     id : TaskIds, data : GoalDialogData]

Operation(s, c) ==
    LET s0 == [s EXCEPT !.shown = <<>>]
    IN CASE c.op = "toggle_task" -> toggle_task(s0, c.id, TRUE)
         [] c.op = "edit_task" -> edit_task(s0, c.id, c.data)
         [] c.op = "delete_task" -> delete_task(s0, c.id, TRUE)
         [] OTHER -> undo_delete_task(s0)

(* C37: the goal-met popup and notification are shown at most once per     *)
(* calendar day: when the last handler has shown them, no toggle, edit,    *)
(* delete or undo on that date, nor any two of them in a row, shows them   *)
(* again.                                                                  *)
C37_GoalMetOncePerDay ==
    GoalMetShownBy(shown) =>
        \A c1 \in DayOperations :
            LET a == Operation(App, c1)
            IN /\ ~GoalMetShownBy(a.shown)
               /\ \A c2 \in DayOperations : ~GoalMetShownBy(Operation(a, c2).shown)

----------------------------------------------------------------------------
(* Backups *)

(* the save method of the file under file_path *)
save_data(s, file_path, v, replaced) ==
    CASE file_path = "data_file" -> save_tasks_data(s, v, replaced)
      [] file_path = "categories_file" -> save_categories_data(s, v, replaced)
      [] file_path = "goals_file" -> save_goals_data(s, v, replaced)
      [] OTHER -> save_recurring_tasks_data(s, v, replaced)

(* the three files saved through _save_json alone *)
SavedOnce == Paths \ {"recurring_tasks_file"}

BackupIsPrevious(file_path) ==
    \A v \in Versions, replaced \in BOOLEAN :
        (disk[file_path].file.exists /\ disk[file_path].file # Content(v)) =>
            LET r == save_data(App, file_path, v, replaced).disk[file_path]
            IN /\ r.bak = disk[file_path].file
               /\ r.file = Content(v)

(* C38: every save of tasks, categories, goals or recurring definitions    *)
(* backs up before it overwrites: after a save of new data over an         *)
(* existing file, the .bak file holds the content the file had before that *)
(* save and the file holds the new data.                                   *)
C38_BackupBeforeOverwrite ==
    \A file_path \in Paths : BackupIsPrevious(file_path)

====
